---- MODULE Spec2Model ----
(***************************************************************************)
(* TicketBari server (src/index.js): the route handlers over the four      *)
(* MongoDB collections users, tickets, bookings and payments.              *)
(*                                                                         *)
(* A collection is a function from the _id values of its documents to the  *)
(* documents; insertOne draws a fresh _id from nextId.  A handler is one   *)
(* action: it takes the request (caller, path parameter, body), performs   *)
(* the handler's data-store operations in the order of the code and        *)
(* leaves the HTTP response in res.                                        *)
(*                                                                         *)
(* Requests whose handler is followed step by step, one step per awaited   *)
(* data-store call, are kept in inflight until their response is sent.     *)
(*                                                                         *)
(* The specifications share the handlers:                                  *)
(*   Spec           bookings and payments against one seeded ticket;       *)
(*   SpecAdvertise  ticket creation, vendor updates and advertise toggles  *)
(*                  over the tickets of seedTickets.js;                    *)
(*   SpecFraud      ticket creation, vendor updates, admin moderation and  *)
(*                  fraud marking over the tickets of two vendors.         *)
(*   SpecSearch     the public search over every moderation state;         *)
(*   SpecAuth       the guards of admin-only and vendor-only routes, one   *)
(*                  middleware per step;                                   *)
(*   SpecSelf       the routes scoped to the caller's own email;           *)
(*   SpecCatalog    vendor and admin operations on tickets with bookings;  *)
(*   SpecUsers      POST /users, one data-store call per step;             *)
(*   SpecLedger     payments, accepts and rejects of one booking found in  *)
(*                  any status;                                            *)
(*   SpecOversell   concurrent POST /bookings, one call per step;          *)
(*   SpecCapRace    concurrent advertise requests, one call per step;      *)
(*   SpecPayFail    POST /payments with failing data-store calls;          *)
(*   SpecAnswer     failing calls in guards and handlers, with fairness;   *)
(*   SpecProfile    profile updates whose bodies name role and isFraud;    *)
(*   SpecCancelRace a cancel beside an accept or a payment.                *)
(***************************************************************************)
EXTENDS Integers, FiniteSets, Sequences, TLC

VARIABLES usersCollection, ticketsCollection, bookingsCollection,
          paymentsCollection, nextId, now, res, inflight

vars == <<usersCollection, ticketsCollection, bookingsCollection,
          paymentsCollection, nextId, now, res, inflight>>

----------------------------------------------------------------------------
(* Bounds of the model *)

MaxQty == 2
MaxTime == 1
MaxInserts == 3
MaxTickets == 7
MaxFraudTickets == 3

(* Program constant: the advertise cap of PATCH /admin/tickets/advertise/:id *)
AdvertiseCap == 6

----------------------------------------------------------------------------
(* Values *)

AdminEmail == "admin@tb"
Vendor1Email == "vendor1@tb"
Vendor2Email == "vendor2@tb"
UserEmail == "user@tb"

BookingStatus == {"pending", "accepted", "rejected", "cancelled", "paid"}

(* The users the store holds when the server starts: one admin, two        *)
(* vendors and one plain user, none of them marked as fraud.               *)
SeedUsers ==
  (1 :> [email |-> AdminEmail, role |-> "admin", isFraud |-> FALSE]) @@
  (2 :> [email |-> Vendor1Email, role |-> "vendor", isFraud |-> FALSE]) @@
  (3 :> [email |-> Vendor2Email, role |-> "vendor", isFraud |-> FALSE]) @@
  (4 :> [email |-> UserEmail, role |-> "user", isFraud |-> FALSE])

(* A ticket document as seedTickets.js and POST /tickets store it. *)
Ticket(vendor, qty, departure, status, advertised, hidden) ==
  [vendorEmail |-> vendor, ticketQuantity |-> qty,
   departureDateTime |-> departure, verificationStatus |-> status,
   isAdvertised |-> advertised, isHidden |-> hidden]

----------------------------------------------------------------------------
(* Data-store helpers *)

Min(S) == CHOOSE x \in S : \A y \in S : x <= y

(* collection.insertOne(doc): the document is stored under a fresh _id. *)
insertOne(coll, id, doc) == coll @@ (id :> doc)

(* $set / object spread: the fields of body overwrite or extend those of doc. *)
SetFields(doc, body) ==
  [f \in DOMAIN doc \cup DOMAIN body |-> IF f \in DOMAIN body THEN body[f] ELSE doc[f]]

(* collection.updateOne({_id: id}, {$set: body}): no document, no change. *)
updateOne(coll, id, body) ==
  IF id \in DOMAIN coll
    THEN [coll EXCEPT ![id] = SetFields(coll[id], body)]
    ELSE coll

(* usersCollection.findOne({email}): the _id of the first such user, 0 for null. *)
findOneUserByEmail(email) ==
  LET found == {u \in DOMAIN usersCollection : usersCollection[u].email = email}
  IN IF found = {} THEN 0 ELSE Min(found)

(* user?.role of the user usersCollection.findOne({email}) returns. *)
RoleOf(email) ==
  LET u == findOneUserByEmail(email)
  IN IF u = 0 THEN "none" ELSE usersCollection[u].role

(* The role guards: next() is called only for the required role. *)
verifyAdmin(email) == RoleOf(email) = "admin"

verifyVendor(email) == RoleOf(email) = "vendor"

(* res.status(code).send({message}) of route op. *)
Response(op, code, message) == [op |-> op, code |-> code, message |-> message]

Forbidden(op) == Response(op, 403, "Forbidden access")

----------------------------------------------------------------------------
(* Booking routes *)

(* Mutation: the comparison is off by one time unit. *)
DepartureHasPassed_Late(ticket, t) == ticket.departureDateTime + 1 < t

(* new Date(ticket.departureDateTime) < new Date() *)
DepartureHasPassed(ticket, t) == ticket.departureDateTime < t

(* Mutation: one ticket more than available may be booked. *)
NotEnoughTickets_OffByOne(ticket, booking) ==
  ticket.ticketQuantity + 1 < booking.bookingQuantity

(* ticket.ticketQuantity < booking.bookingQuantity *)
NotEnoughTickets(ticket, booking) == ticket.ticketQuantity < booking.bookingQuantity

(* Mutation: the status of the request body is stored. *)
bookingData_BodyStatus(booking) == booking

(* {...booking, status: 'pending', createdAt} *)
bookingData(booking) == [booking EXCEPT !.status = "pending"]

(* POST /bookings, handled at time t. *)
PostBookings(booking, t) ==
  LET id == booking.ticketId
  IN
  /\ now' = t
  /\ UNCHANGED <<usersCollection, ticketsCollection, paymentsCollection>>
  /\ IF id \notin DOMAIN ticketsCollection
       THEN /\ res' = Response("POST /bookings", 404, "Ticket not found")
            /\ UNCHANGED <<bookingsCollection, nextId>>
     ELSE IF NotEnoughTickets(ticketsCollection[id], booking)
       THEN /\ res' = Response("POST /bookings", 400, "Not enough tickets available")
            /\ UNCHANGED <<bookingsCollection, nextId>>
     ELSE IF DepartureHasPassed(ticketsCollection[id], t)
       THEN /\ res' = Response("POST /bookings", 400,
                               "Cannot book - departure time has passed")
            /\ UNCHANGED <<bookingsCollection, nextId>>
     ELSE /\ bookingsCollection' =
               insertOne(bookingsCollection, nextId.bookings, bookingData(booking))
          /\ nextId' = [nextId EXCEPT !.bookings = @ + 1]
          /\ res' = Response("POST /bookings", 200, "inserted")

(* PATCH /bookings/accept/:id *)
AcceptUpdate == [status |-> "accepted"]

PatchBookingsAccept(caller, id) ==
  /\ UNCHANGED <<usersCollection, ticketsCollection, paymentsCollection, nextId, now>>
  /\ IF ~verifyVendor(caller)
       THEN /\ res' = Forbidden("PATCH /bookings/accept")
            /\ UNCHANGED bookingsCollection
       ELSE /\ bookingsCollection' = updateOne(bookingsCollection, id, AcceptUpdate)
            /\ res' = Response("PATCH /bookings/accept", 200, "updated")

(* PATCH /bookings/reject/:id *)
RejectUpdate == [status |-> "rejected"]

PatchBookingsReject(caller, id) ==
  /\ UNCHANGED <<usersCollection, ticketsCollection, paymentsCollection, nextId, now>>
  /\ IF ~verifyVendor(caller)
       THEN /\ res' = Forbidden("PATCH /bookings/reject")
            /\ UNCHANGED bookingsCollection
       ELSE /\ bookingsCollection' = updateOne(bookingsCollection, id, RejectUpdate)
            /\ res' = Response("PATCH /bookings/reject", 200, "updated")

(* Mutation: an accepted booking may be cancelled too. *)
CanCancel_Accepted(booking) == booking.status \in {"pending", "accepted"}

(* PATCH /bookings/cancel/:id *)
CanCancel(booking) == booking.status = "pending"

PatchBookingsCancel(id) ==
  /\ UNCHANGED <<usersCollection, ticketsCollection, paymentsCollection, nextId, now>>
  /\ IF id \notin DOMAIN bookingsCollection
       THEN \* booking is null: booking.status throws, the catch answers 500
            /\ res' = Response("PATCH /bookings/cancel", 500, "TypeError")
            /\ UNCHANGED bookingsCollection
     ELSE IF ~CanCancel(bookingsCollection[id])
       THEN /\ res' = Response("PATCH /bookings/cancel", 400,
                               "Can only cancel pending bookings")
            /\ UNCHANGED bookingsCollection
     ELSE /\ bookingsCollection' =
               updateOne(bookingsCollection, id, [status |-> "cancelled"])
          /\ res' = Response("PATCH /bookings/cancel", 200, "updated")

----------------------------------------------------------------------------
(* Payment route *)

(* Mutation: the ticket is left as it is. *)
ticketUpdate_NoDecrement(ticket, payment) == ticket

(* {$inc: {ticketQuantity: -payment.bookingQuantity}} *)
ticketUpdate(ticket, payment) ==
  [ticket EXCEPT !.ticketQuantity = @ - payment.bookingQuantity]

(* Mutation: the payment marks the booking 'accepted'. *)
bookingUpdate_Accepted == [status |-> "accepted"]

(* {$set: {status: 'paid', paidAt, transactionId}} *)
bookingUpdate == [status |-> "paid"]

(* POST /payments *)
PostPayments(payment) ==
  /\ UNCHANGED <<usersCollection, now>>
  /\ paymentsCollection' = insertOne(paymentsCollection, nextId.payments, payment)
  /\ nextId' = [nextId EXCEPT !.payments = @ + 1]
  /\ bookingsCollection' = updateOne(bookingsCollection, payment.bookingId, bookingUpdate)
  /\ ticketsCollection' =
       IF payment.ticketId \in DOMAIN ticketsCollection
         THEN [ticketsCollection EXCEPT
                 ![payment.ticketId] = ticketUpdate(@, payment)]
         ELSE ticketsCollection
  /\ res' = Response("POST /payments", 200, "inserted")

----------------------------------------------------------------------------
(* User and ticket routes *)

(* Mutation: the updateMany filter is dropped, every ticket is hidden. *)
hideTicketsOf_All(coll, email) ==
  [t \in DOMAIN coll |-> [coll[t] EXCEPT !.isHidden = TRUE]]

(* ticketsCollection.updateMany({vendorEmail: email}, {$set: {isHidden: true}}) *)
hideTicketsOf(coll, email) ==
  [t \in DOMAIN coll |->
     IF coll[t].vendorEmail = email THEN [coll[t] EXCEPT !.isHidden = TRUE] ELSE coll[t]]

(* PATCH /users/fraud/:id *)
PatchUsersFraud(caller, id) ==
  /\ UNCHANGED <<bookingsCollection, paymentsCollection, nextId, now>>
  /\ IF ~verifyAdmin(caller)
       THEN /\ res' = Forbidden("PATCH /users/fraud")
            /\ UNCHANGED <<usersCollection, ticketsCollection>>
       ELSE /\ usersCollection' = updateOne(usersCollection, id, [isFraud |-> TRUE])
            /\ ticketsCollection' =
                 IF id \in DOMAIN usersCollection
                   THEN hideTicketsOf(ticketsCollection, usersCollection[id].email)
                   ELSE ticketsCollection
            /\ res' = Response("PATCH /users/fraud", 200, "updated")

(* vendor?.isFraud of the user usersCollection.findOne({email: ticket.vendorEmail}) returns *)
VendorIsFraud(email) ==
  LET u == findOneUserByEmail(email)
  IN u # 0 /\ usersCollection[u].isFraud

(* {...ticket, verificationStatus: 'pending', isAdvertised: false, isHidden: false} *)
ticketData(ticket) ==
  [ticket EXCEPT !.verificationStatus = "pending",
                 !.isAdvertised = FALSE,
                 !.isHidden = FALSE]

(* POST /tickets *)
PostTickets(caller, ticket) ==
  /\ UNCHANGED <<usersCollection, bookingsCollection, paymentsCollection, now>>
  /\ IF ~verifyVendor(caller)
       THEN /\ res' = Forbidden("POST /tickets")
            /\ UNCHANGED <<ticketsCollection, nextId>>
     ELSE IF VendorIsFraud(ticket.vendorEmail)
       THEN /\ res' = Response("POST /tickets", 403, "Fraud vendors cannot add tickets")
            /\ UNCHANGED <<ticketsCollection, nextId>>
     ELSE /\ ticketsCollection' =
               insertOne(ticketsCollection, nextId.tickets, ticketData(ticket))
          /\ nextId' = [nextId EXCEPT !.tickets = @ + 1]
          /\ res' = Response("POST /tickets", 200, "inserted")

(* Mutation: hidden tickets are listed. *)
PublicQuery_ShowHidden(ticket) == ticket.verificationStatus = "approved"

(* The query of GET /tickets without filters:                              *)
(* {verificationStatus: 'approved', isHidden: {$ne: true}}                 *)
PublicQuery(ticket) ==
  ticket.verificationStatus = "approved" /\ ticket.isHidden # TRUE

(* GET /tickets: the _ids of the tickets the public listing returns. *)
GetTickets == {t \in DOMAIN ticketsCollection : PublicQuery(ticketsCollection[t])}

(* Mutation: the test looks for 'pending' instead of 'rejected'. *)
IsRejected_Pending(coll, id) ==
  id \in DOMAIN coll /\ coll[id].verificationStatus = "pending"

(* existingTicket?.verificationStatus === 'rejected' *)
IsRejected(coll, id) == id \in DOMAIN coll /\ coll[id].verificationStatus = "rejected"

(* PATCH /tickets/:id *)
PatchTicketsId(caller, id, updatedTicket) ==
  /\ UNCHANGED <<usersCollection, bookingsCollection, paymentsCollection, nextId, now>>
  /\ IF ~verifyVendor(caller)
       THEN /\ res' = Forbidden("PATCH /tickets")
            /\ UNCHANGED ticketsCollection
     ELSE IF IsRejected(ticketsCollection, id)
       THEN /\ res' = Response("PATCH /tickets", 403, "Cannot update rejected tickets")
            /\ UNCHANGED ticketsCollection
     ELSE /\ ticketsCollection' = updateOne(ticketsCollection, id, updatedTicket)
          /\ res' = Response("PATCH /tickets", 200, "updated")

(* PATCH /admin/tickets/:id *)
PatchAdminTicketsId(caller, id, verificationStatus) ==
  /\ UNCHANGED <<usersCollection, bookingsCollection, paymentsCollection, nextId, now>>
  /\ IF ~verifyAdmin(caller)
       THEN /\ res' = Forbidden("PATCH /admin/tickets")
            /\ UNCHANGED ticketsCollection
       ELSE /\ ticketsCollection' =
                 updateOne(ticketsCollection, id, [verificationStatus |-> verificationStatus])
            /\ res' = Response("PATCH /admin/tickets", 200, "updated")

(* ticketsCollection.countDocuments({isAdvertised: true}) *)
advertisedCount(coll) == Cardinality({t \in DOMAIN coll : coll[t].isAdvertised = TRUE})

(* Mutation: the cap is compared with > instead of >=. *)
CapReached_OffByOne(count) == count > AdvertiseCap

(* advertisedCount >= 6 *)
CapReached(count) == count >= AdvertiseCap

(* PATCH /admin/tickets/advertise/:id *)
PatchAdminTicketsAdvertise(caller, id, isAdvertised) ==
  /\ UNCHANGED <<usersCollection, bookingsCollection, paymentsCollection, nextId, now>>
  /\ IF ~verifyAdmin(caller)
       THEN /\ res' = Forbidden("PATCH /admin/tickets/advertise")
            /\ UNCHANGED ticketsCollection
     ELSE IF isAdvertised /\ CapReached(advertisedCount(ticketsCollection))
       THEN /\ res' = Response("PATCH /admin/tickets/advertise", 400,
                               "Cannot advertise more than 6 tickets")
            /\ UNCHANGED ticketsCollection
     ELSE /\ ticketsCollection' =
               updateOne(ticketsCollection, id, [isAdvertised |-> isAdvertised])
          /\ res' = Response("PATCH /admin/tickets/advertise", 200, "updated")

----------------------------------------------------------------------------
(* The booking workflow: bookings and payments against a seeded ticket. *)

(* Requested quantities: one ticket, all the seeded ticket has, one more. *)
BookingQuantities == {1, MaxQty, MaxQty + 1}

(* Ticket 1 is the seeded ticket, ticket 2 does not exist. *)
BookingBodies ==
  [ticketId : 1..2, bookingQuantity : BookingQuantities, status : {"pending", "paid"}]

BookingIds == 1..2

PaymentBodies ==
  [bookingId : BookingIds, ticketId : {1}, bookingQuantity : {1, MaxQty}]

(* The number of documents inserted into bookings and payments so far. *)
Inserted == (nextId.bookings - 1) + (nextId.payments - 1)

Init ==
  /\ usersCollection = SeedUsers
  /\ ticketsCollection = (1 :> Ticket(Vendor1Email, MaxQty, 0, "approved", FALSE, FALSE))
  /\ bookingsCollection = <<>>
  /\ paymentsCollection = <<>>
  /\ nextId = [tickets |-> 2, bookings |-> 1, payments |-> 1]
  /\ now = 0
  /\ res = Response("none", 0, "")
  /\ inflight = <<>>

CreateBooking ==
  /\ Inserted < MaxInserts
  /\ UNCHANGED inflight
  /\ \E booking \in BookingBodies, t \in now..MaxTime : PostBookings(booking, t)

AcceptBooking ==
  /\ UNCHANGED inflight
  /\ \E caller \in {Vendor1Email, UserEmail}, id \in BookingIds :
       PatchBookingsAccept(caller, id)

RejectBooking ==
  /\ UNCHANGED inflight
  /\ \E caller \in {Vendor1Email, UserEmail}, id \in BookingIds :
       PatchBookingsReject(caller, id)

CancelBooking ==
  /\ UNCHANGED inflight
  /\ \E id \in BookingIds : PatchBookingsCancel(id)

RecordPayment ==
  /\ Inserted < MaxInserts
  /\ UNCHANGED inflight
  /\ \E payment \in PaymentBodies : PostPayments(payment)

Next ==
  \/ CreateBooking
  \/ AcceptBooking
  \/ RejectBooking
  \/ CancelBooking
  \/ RecordPayment

Spec == Init /\ [][Next]_vars

----------------------------------------------------------------------------
(* Properties of the booking workflow *)

(* C1: after POST /payments succeeded for booking B on ticket T, a payment *)
(* record referencing B and T exists, B is 'paid' and T's ticketQuantity   *)
(* is lower than before by exactly the quantity stored in booking B.       *)
C1_PaymentDecrementsByBookedQuantity ==
  [][res'.op = "POST /payments" =>
     \A payment \in PaymentBodies :
       LET B == payment.bookingId
           T == payment.ticketId
       IN (/\ PostPayments(payment)
           /\ res'.code = 200
           /\ B \in DOMAIN bookingsCollection
           /\ T \in DOMAIN ticketsCollection
           /\ bookingsCollection[B].ticketId = T)
          => /\ \E p \in DOMAIN paymentsCollection' :
                  /\ paymentsCollection'[p].bookingId = B
                  /\ paymentsCollection'[p].ticketId = T
             /\ bookingsCollection'[B].status = "paid"
             /\ ticketsCollection'[T].ticketQuantity =
                  ticketsCollection[T].ticketQuantity
                    - bookingsCollection[B].bookingQuantity]_vars

(* C2: POST /bookings asking for more than the ticket's current            *)
(* ticketQuantity answers 400 and writes nothing.                          *)
C2_OverbookingRefused ==
  [][res'.op = "POST /bookings" =>
     \A booking \in BookingBodies, t \in 0..MaxTime :
       (/\ PostBookings(booking, t)
        /\ booking.ticketId \in DOMAIN ticketsCollection
        /\ booking.bookingQuantity > ticketsCollection[booking.ticketId].ticketQuantity)
       => /\ res'.code = 400
          /\ UNCHANGED <<bookingsCollection, ticketsCollection,
                         paymentsCollection, usersCollection>>]_vars

(* C2 witness: a booking request was refused for lack of tickets. *)
C2_Witness ==
  /\ res.op = "POST /bookings"
  /\ res.code = 400
  /\ res.message = "Not enough tickets available"

(* C3: POST /bookings against a ticket whose departure is earlier than the *)
(* time of the request answers 400 and inserts no booking, whatever the    *)
(* requested quantity.                                                     *)
C3_DepartedTicketRefused ==
  [][res'.op = "POST /bookings" =>
     \A booking \in BookingBodies, t \in 0..MaxTime :
       (/\ PostBookings(booking, t)
        /\ booking.ticketId \in DOMAIN ticketsCollection
        /\ ticketsCollection[booking.ticketId].departureDateTime < t)
       => /\ res'.code = 400
          /\ UNCHANGED bookingsCollection]_vars

(* C3 witness: a request for an available quantity was refused because    *)
(* the departure time had passed.                                          *)
C3_Witness ==
  /\ res.op = "POST /bookings"
  /\ res.code = 400
  /\ res.message = "Cannot book - departure time has passed"
  /\ \E id \in DOMAIN ticketsCollection :
       ticketsCollection[id].departureDateTime < now

(* C4: a successful POST /bookings inserts exactly one booking, stored as  *)
(* 'pending' whatever status the body carried, and changes no ticket; for  *)
(* a ticket that does not exist it answers 404 and inserts nothing.        *)
C4_BookingInsertedPending ==
  [][res'.op = "POST /bookings" =>
     \A booking \in BookingBodies, t \in 0..MaxTime :
       PostBookings(booking, t) =>
         IF booking.ticketId \notin DOMAIN ticketsCollection
           THEN /\ res'.code = 404
                /\ UNCHANGED <<bookingsCollection, ticketsCollection>>
         ELSE (/\ ticketsCollection[booking.ticketId].ticketQuantity
                    >= booking.bookingQuantity
               /\ ticketsCollection[booking.ticketId].departureDateTime >= t)
              => /\ res'.code = 200
                 /\ UNCHANGED ticketsCollection
                 /\ \E b \in DOMAIN bookingsCollection' :
                      /\ b \notin DOMAIN bookingsCollection
                      /\ DOMAIN bookingsCollection' = DOMAIN bookingsCollection \cup {b}
                      /\ bookingsCollection'[b].status = "pending"
                      /\ bookingsCollection'[b].ticketId = booking.ticketId
                      /\ bookingsCollection'[b].bookingQuantity = booking.bookingQuantity
                 /\ \A b \in DOMAIN bookingsCollection :
                      bookingsCollection'[b] = bookingsCollection[b]]_vars

(* C4 witness: a booking request succeeded and its booking is stored. *)
C4_Witness ==
  /\ res.op = "POST /bookings"
  /\ res.code = 200
  /\ bookingsCollection # <<>>
  /\ bookingsCollection[nextId.bookings - 1].status = "pending"

(* C5: PATCH /bookings/cancel/:id sets an existing booking to 'cancelled'  *)
(* exactly when it is 'pending'; in any other status it answers 400 and    *)
(* leaves the booking unchanged.                                           *)
C5_CancelOnlyPending ==
  [][res'.op = "PATCH /bookings/cancel" =>
     \A id \in BookingIds :
       (/\ PatchBookingsCancel(id)
        /\ id \in DOMAIN bookingsCollection) =>
         IF bookingsCollection[id].status = "pending"
           THEN /\ res'.code = 200
                /\ bookingsCollection' =
                     [bookingsCollection EXCEPT ![id].status = "cancelled"]
           ELSE /\ res'.code = 400
                /\ UNCHANGED bookingsCollection]_vars

(* C5 witness: a cancel request was refused while a booking is accepted. *)
C5_Witness ==
  /\ res.op = "PATCH /bookings/cancel"
  /\ res.code = 400
  /\ \E b \in DOMAIN bookingsCollection : bookingsCollection[b].status = "accepted"

(* C10: the ticketQuantity of every ticket is never negative. *)
C10_QuantityNeverNegative ==
  \A t \in DOMAIN ticketsCollection : ticketsCollection[t].ticketQuantity >= 0

----------------------------------------------------------------------------
(* The advertise cap: ticket creation, vendor updates and admin advertise  *)
(* toggles over the tickets of seedTickets.js.  Admin moderation writes    *)
(* verificationStatus only and is left to the fraud specification.         *)

(* The tickets seedTickets.js inserts: approved, the first two advertised. *)
SeedTickets ==
  (1 :> Ticket(Vendor1Email, MaxQty, 0, "approved", TRUE, FALSE)) @@
  (2 :> Ticket(Vendor1Email, MaxQty, 0, "approved", TRUE, FALSE)) @@
  (3 :> Ticket(Vendor1Email, MaxQty, 0, "approved", FALSE, FALSE)) @@
  (4 :> Ticket(Vendor1Email, MaxQty, 0, "approved", FALSE, FALSE))

InitAdvertise ==
  /\ usersCollection = SeedUsers
  /\ ticketsCollection = SeedTickets
  /\ bookingsCollection = <<>>
  /\ paymentsCollection = <<>>
  /\ nextId = [tickets |-> 5, bookings |-> 1, payments |-> 1]
  /\ now = 0
  /\ res = Response("none", 0, "")
  /\ inflight = <<>>

AdvertiseTicketBodies ==
  {Ticket(Vendor1Email, MaxQty, 0, "approved", a, FALSE) : a \in BOOLEAN}

AdvertiseUpdateBodies == {[isAdvertised |-> a] : a \in BOOLEAN}

AdvertiseCreateTicket ==
  /\ nextId.tickets <= MaxTickets
  /\ UNCHANGED inflight
  /\ \E ticket \in AdvertiseTicketBodies : PostTickets(Vendor1Email, ticket)

AdvertiseVendorUpdate ==
  /\ UNCHANGED inflight
  /\ \E id \in 1..MaxTickets, updatedTicket \in AdvertiseUpdateBodies :
       PatchTicketsId(Vendor1Email, id, updatedTicket)

AdvertiseCallers == {AdminEmail, Vendor1Email}

AdvertiseToggle ==
  /\ UNCHANGED inflight
  /\ \E caller \in AdvertiseCallers, id \in 1..MaxTickets, isAdvertised \in BOOLEAN :
       PatchAdminTicketsAdvertise(caller, id, isAdvertised)

NextAdvertise ==
  \/ AdvertiseCreateTicket
  \/ AdvertiseVendorUpdate
  \/ AdvertiseToggle

SpecAdvertise == InitAdvertise /\ [][NextAdvertise]_vars

(* C6: an admin request to advertise a ticket while exactly 5 tickets are  *)
(* advertised succeeds and makes that ticket the 6th; one issued while 6   *)
(* are advertised answers 400 and changes no ticket; a request to set      *)
(* isAdvertised=false always succeeds.                                     *)
C6_SixthAdvertisedSeventhRefused ==
  [][res'.op = "PATCH /admin/tickets/advertise" =>
     \A caller \in AdvertiseCallers, id \in 1..MaxTickets, isAdvertised \in BOOLEAN :
       (verifyAdmin(caller) /\ PatchAdminTicketsAdvertise(caller, id, isAdvertised)) =>
         LET count == Cardinality({t \in DOMAIN ticketsCollection :
                                     ticketsCollection[t].isAdvertised})
             count2 == Cardinality({t \in DOMAIN ticketsCollection' :
                                      ticketsCollection'[t].isAdvertised})
         IN /\ (/\ isAdvertised
                /\ count = 5
                /\ id \in DOMAIN ticketsCollection
                /\ ~ticketsCollection[id].isAdvertised)
               => /\ res'.code = 200
                  /\ ticketsCollection' =
                       [ticketsCollection EXCEPT ![id].isAdvertised = TRUE]
                  /\ count2 = 6
            /\ (isAdvertised /\ count = 6)
               => /\ res'.code = 400
                  /\ UNCHANGED ticketsCollection
            /\ ~isAdvertised
               => /\ res'.code = 200
                  /\ id \in DOMAIN ticketsCollection =>
                       ticketsCollection' =
                         [ticketsCollection EXCEPT ![id].isAdvertised = FALSE]]_vars

(* C6 witness: with 6 tickets advertised and a 7th not advertised, an      *)
(* advertise request was refused.                                          *)
C6_Witness ==
  /\ res.op = "PATCH /admin/tickets/advertise"
  /\ res.code = 400
  /\ Cardinality({t \in DOMAIN ticketsCollection :
                    ticketsCollection[t].isAdvertised}) = 6
  /\ \E t \in DOMAIN ticketsCollection : ~ticketsCollection[t].isAdvertised

(* C7: at most 6 tickets are advertised, in every reachable state. *)
C7_AtMostSixAdvertised ==
  Cardinality({t \in DOMAIN ticketsCollection :
                 ticketsCollection[t].isAdvertised}) <= 6

----------------------------------------------------------------------------
(* Fraud marking: ticket creation, vendor updates, admin moderation and    *)
(* fraud marking over one ticket of each vendor.                           *)

InitFraud ==
  /\ usersCollection = SeedUsers
  /\ ticketsCollection =
       (1 :> Ticket(Vendor1Email, MaxQty, 0, "approved", FALSE, FALSE)) @@
       (2 :> Ticket(Vendor2Email, MaxQty, 0, "pending", FALSE, FALSE))
  /\ bookingsCollection = <<>>
  /\ paymentsCollection = <<>>
  /\ nextId = [tickets |-> 3, bookings |-> 1, payments |-> 1]
  /\ now = 0
  /\ res = Response("none", 0, "")
  /\ inflight = <<>>

FraudTicketBodies ==
  {Ticket(v, MaxQty, 0, "approved", FALSE, h) :
     v \in {Vendor1Email, Vendor2Email}, h \in BOOLEAN}

FraudUpdateBodies == {[isHidden |-> FALSE]}

FraudCreateTicket ==
  /\ nextId.tickets <= MaxFraudTickets
  /\ UNCHANGED inflight
  /\ \E caller \in {Vendor1Email, Vendor2Email}, ticket \in FraudTicketBodies :
       PostTickets(caller, ticket)

FraudVendorUpdate ==
  /\ UNCHANGED inflight
  /\ \E caller \in {Vendor1Email, Vendor2Email}, id \in 1..MaxFraudTickets,
        updatedTicket \in FraudUpdateBodies :
          PatchTicketsId(caller, id, updatedTicket)

FraudModerate ==
  /\ UNCHANGED inflight
  /\ \E caller \in {AdminEmail, Vendor1Email}, id \in 1..MaxFraudTickets :
       PatchAdminTicketsId(caller, id, "approved")

FraudMark ==
  /\ UNCHANGED inflight
  /\ \E caller \in {AdminEmail, Vendor1Email}, id \in 2..5 :
       PatchUsersFraud(caller, id)

NextFraud ==
  \/ FraudCreateTicket
  \/ FraudVendorUpdate
  \/ FraudModerate
  \/ FraudMark

SpecFraud == InitFraud /\ [][NextFraud]_vars

(* C8: PATCH /users/fraud/:id by an admin for an existing user U sets      *)
(* U.isFraud, sets isHidden on every ticket whose vendorEmail is U.email   *)
(* and changes no other ticket and no other user.                          *)
C8_FraudHidesOnlyThatVendor ==
  [][res'.op = "PATCH /users/fraud" =>
     \A caller \in {AdminEmail, Vendor1Email}, id \in 2..5 :
       (/\ PatchUsersFraud(caller, id)
        /\ verifyAdmin(caller)
        /\ id \in DOMAIN usersCollection)
       => /\ res'.code = 200
          /\ usersCollection' = [usersCollection EXCEPT ![id].isFraud = TRUE]
          /\ DOMAIN ticketsCollection' = DOMAIN ticketsCollection
          /\ \A t \in DOMAIN ticketsCollection :
               ticketsCollection'[t] =
                 IF ticketsCollection[t].vendorEmail = usersCollection[id].email
                   THEN [ticketsCollection[t] EXCEPT !.isHidden = TRUE]
                   ELSE ticketsCollection[t]]_vars

(* C8 witness: a vendor was marked fraud, a ticket of that vendor is       *)
(* hidden and a ticket of another vendor is not.                           *)
C8_Witness ==
  /\ res.op = "PATCH /users/fraud"
  /\ res.code = 200
  /\ \E u \in DOMAIN usersCollection, t1, t2 \in DOMAIN ticketsCollection :
       /\ usersCollection[u].isFraud
       /\ ticketsCollection[t1].vendorEmail = usersCollection[u].email
       /\ ticketsCollection[t1].isHidden
       /\ ticketsCollection[t2].vendorEmail # usersCollection[u].email
       /\ ~ticketsCollection[t2].isHidden

(* C9: no ticket whose vendorEmail is the email of a user marked fraud is  *)
(* returned by the public listing GET /tickets.                            *)
C9_FraudVendorTicketsNotListed ==
  \A t \in GetTickets :
    ~\E u \in DOMAIN usersCollection :
        /\ usersCollection[u].isFraud
        /\ usersCollection[u].email = ticketsCollection[t].vendorEmail

----------------------------------------------------------------------------
(* The public search GET /tickets with its filters, sort and pagination.   *)
(* A text is a sequence of characters.                                     *)

MaxSearchTickets == 2

Dhaka == <<"D", "h", "a", "k", "a">>
Sylhet == <<"S", "y", "l", "h", "e", "t">>
NightCoach == <<"N", "i", "g", "h", "t">>
All == <<"a", "l", "l">>

toLowerCase(c) ==
  CASE c = "D" -> "d"
    [] c = "S" -> "s"
    [] c = "N" -> "n"
    [] OTHER -> c

(* One character of a pattern against one character of a text under       *)
(* $options: 'i'; the pattern character . stands for any character.        *)
CharMatches(p, c) == p = "." \/ toLowerCase(p) = toLowerCase(c)

(* {$regex: pattern, $options: 'i'}: the pattern occurs somewhere in text. *)
regex(pattern, text) ==
  \E i \in 0..(Len(text) - Len(pattern)) :
    \A j \in 1..Len(pattern) : CharMatches(pattern[j], text[i + j])

(* if (from && from !== 'all'); part_000 tests if (from) only. *)
locationFilter(value, skipAll) == value # <<>> /\ (skipAll => value # All)

(* The query object GET /tickets builds, applied to one ticket. *)
query(ticket, q, skipAll) ==
  /\ PublicQuery(ticket)
  /\ locationFilter(q.from, skipAll) => regex(q.from, ticket.fromLocation)
  /\ locationFilter(q.to, skipAll) => regex(q.to, ticket.toLocation)
  /\ q.search # <<>> =>
       \/ regex(q.search, ticket.fromLocation)
       \/ regex(q.search, ticket.toLocation)
       \/ regex(q.search, ticket.title)
  /\ (q.transportType # "" /\ q.transportType # "all") =>
       ticket.transportType = q.transportType

(* ticketsCollection.find(query): the _ids of the matching tickets. *)
find(q, skipAll) ==
  {t \in DOMAIN ticketsCollection : query(ticketsCollection[t], q, skipAll)}

(* {createdAt: -1} unless sortPrice asks for {price: 1} or {price: -1}. *)
sortOption(q) ==
  IF q.sortPrice = "lowToHigh" THEN [field |-> "price", dir |-> 1]
  ELSE IF q.sortPrice = "highToLow" THEN [field |-> "price", dir |-> -1]
  ELSE [field |-> "createdAt", dir |-> -1]

(* cursor.sort(option): every order of S by the sort key; tickets with     *)
(* equal keys come in any order.                                           *)
RECURSIVE sort(_, _)
sort(S, option) ==
  IF S = {} THEN {<<>>}
  ELSE LET key(t) == option.dir * ticketsCollection[t][option.field]
           first == {x \in S : \A y \in S : key(x) <= key(y)}
       IN UNION {{<<x>> \o rest : rest \in sort(S \ {x}, option)} : x \in first}

(* cursor.skip(skip).limit(limit): limit 0 is no limit, a negative limit   *)
(* counts as its absolute value.                                           *)
skipLimit(order, skip, limit) ==
  LET rest == SubSeq(order, skip + 1, Len(order))
      n == IF limit = 0 THEN Len(rest)
           ELSE Min({Len(rest), IF limit < 0 THEN -limit ELSE limit})
  IN SubSeq(rest, 1, n)

(* Math.ceil(total / limit); Infinity and NaN are sent as null. *)
totalPages(total, limit) ==
  IF limit = 0 THEN "null"
  ELSE IF limit > 0 THEN (total + limit - 1) \div limit
  ELSE -(total \div (-limit))

(* GET /tickets with the query string q; skipAll tells the handler of      *)
(* index.js from that of part_000.                                         *)
GetTicketsSearch(q, skipAll) ==
  /\ UNCHANGED <<usersCollection, ticketsCollection, bookingsCollection,
                 paymentsCollection, nextId, now, inflight>>
  /\ LET found == find(q, skipAll)
         skip == (q.page - 1) * q.limit
     IN IF skip < 0
          THEN \* the store rejects a negative skip, the catch answers 500
               res' = Response("GET /tickets", 500, "MongoServerError")
          ELSE \E order \in sort(found, sortOption(q)) :
                 LET page == skipLimit(order, skip, q.limit)
                 IN res' = [op |-> "GET /tickets", code |-> 200, message |-> "",
                            tickets |-> [i \in 1..Len(page) |->
                                           ticketsCollection[page[i]] @@ [_id |-> page[i]]],
                            totalPages |-> totalPages(Cardinality(found), q.limit),
                            currentPage |-> q.page,
                            total |-> Cardinality(found)]

(* The searchable fields of the ticket stored under _id i. *)
SearchFields(i) ==
  [fromLocation |-> IF i % 2 = 1 THEN Dhaka ELSE Sylhet,
   toLocation |-> IF i % 2 = 1 THEN Sylhet ELSE Dhaka,
   title |-> NightCoach,
   transportType |-> IF i % 3 = 0 THEN "Air" ELSE "Bus",
   price |-> 1 + (i % 2),
   createdAt |-> (i + 1) \div 2]

SearchTicket(i, status, hidden) ==
  Ticket(Vendor1Email, MaxQty, 0, status, FALSE, hidden) @@ SearchFields(i)

VerificationStatus == {"pending", "approved", "rejected"}

(* The store holds MaxSearchTickets tickets in any moderation state,       *)
(* hidden or not.                                                          *)
InitSearch ==
  /\ usersCollection = SeedUsers
  /\ \E status \in [1..MaxSearchTickets -> VerificationStatus],
        hidden \in [1..MaxSearchTickets -> BOOLEAN] :
       ticketsCollection =
         [i \in 1..MaxSearchTickets |-> SearchTicket(i, status[i], hidden[i])]
  /\ bookingsCollection = <<>>
  /\ paymentsCollection = <<>>
  /\ nextId = [tickets |-> MaxSearchTickets + 1, bookings |-> 1, payments |-> 1]
  /\ now = 0
  /\ res = Response("none", 0, "")
  /\ inflight = <<>>

(* page and limit of the query string: the defaults, a page before the    *)
(* first, single-ticket pages, no limit and a negative limit.              *)
Paginations == {<<1, 9>>, <<0, 1>>, <<1, 1>>, <<2, 1>>, <<1, 0>>, <<1, -1>>}

(* Query strings: each filter absent, 'all' or a pattern, every sort.      *)
SearchQueries ==
  {[search |-> search, from |-> from, to |-> to, transportType |-> transportType,
    sortPrice |-> sortPrice, page |-> p[1], limit |-> p[2]] :
     search \in {<<>>, <<".", "y">>},
     from \in {<<>>, All, <<"s", "y">>},
     to \in {<<>>, <<"D">>},
     transportType \in {"", "all", "Bus"},
     sortPrice \in {"", "lowToHigh", "highToLow"},
     p \in Paginations}

(* The two handlers differ in the query strings that carry 'all'. *)
SearchQueriesPart000 == {q \in SearchQueries : q.from = All}

SearchTickets == \E q \in SearchQueries : GetTicketsSearch(q, TRUE)

SearchTicketsPart000 == \E q \in SearchQueriesPart000 : GetTicketsSearch(q, FALSE)

NextSearch ==
  \/ SearchTickets
  \/ SearchTicketsPart000

SpecSearch == InitSearch /\ [][NextSearch]_vars

(* C11: whatever the store holds and whatever filter, sort and pagination  *)
(* parameters the request carries, every ticket GET /tickets returns is a  *)
(* ticket of the store that is 'approved' and not hidden.                  *)
C11_SearchReturnsOnlyPublic ==
  (res.op = "GET /tickets" /\ res.code = 200) =>
    \A i \in 1..Len(res.tickets) :
      /\ res.tickets[i].verificationStatus = "approved"
      /\ res.tickets[i].isHidden # TRUE
      /\ res.tickets[i]._id \in DOMAIN ticketsCollection
      /\ ticketsCollection[res.tickets[i]._id].verificationStatus = "approved"
      /\ ticketsCollection[res.tickets[i]._id].isHidden # TRUE

(* C11 witness: a search returned a ticket while the store also holds an   *)
(* approved ticket that is hidden.                                         *)
C11_Witness ==
  /\ res.op = "GET /tickets"
  /\ res.code = 200
  /\ Len(res.tickets) = 1
  /\ \E t \in DOMAIN ticketsCollection :
       /\ ticketsCollection[t].verificationStatus = "approved"
       /\ ticketsCollection[t].isHidden

----------------------------------------------------------------------------
(* The guards of the admin-only and vendor-only routes, step by step:      *)
(* verifyToken, then verifyAdmin or verifyVendor, then the handler.        *)

MaxInflight == 1

GhostEmail == "ghost@tb"

ACCESS_TOKEN_SECRET == "secret"

(* A request without an Authorization header. *)
NoAuthorization == [scheme |-> "none"]

(* 'Bearer ' + jwt.sign({email}, secret, {expiresIn}) *)
Bearer(email, secret, exp) ==
  [scheme |-> "Bearer", email |-> email, secret |-> secret, exp |-> exp]

(* Mutation: the token is decoded without verifying signature and expiry. *)
jwtVerify_DecodeOnly(authorization, t) == authorization.scheme = "Bearer"

(* !authorization, then jwt.verify(token, secret) at time t: the token     *)
(* must be signed with the server's secret and not be expired.             *)
jwtVerify(authorization, t) ==
  /\ authorization.scheme = "Bearer"
  /\ authorization.secret = ACCESS_TOKEN_SECRET
  /\ authorization.exp > t

(* The guard that follows verifyToken in the route's declaration. *)
RoleGuard(route) ==
  IF route = "PATCH /users/role" THEN "verifyAdmin" ELSE "verifyVendor"

(* The request leaves the server: its response has been sent. *)
Answered(r) == [x \in DOMAIN inflight \ {r} |-> inflight[x]]

(* A request arrives and waits for the first middleware of its route. *)
ReceiveRequest(route, authorization, params) ==
  /\ UNCHANGED <<usersCollection, ticketsCollection, bookingsCollection,
                 paymentsCollection, nextId, now, res>>
  /\ \E r \in 1..MaxInflight :
       /\ r \notin DOMAIN inflight
       /\ inflight' = inflight @@
            (r :> [route |-> route, pc |-> "verifyToken",
                   authorization |-> authorization,
                   decoded |-> [email |-> "undefined"], params |-> params])

(* verifyToken, run at time t. *)
VerifyTokenStep(r, t) ==
  /\ r \in DOMAIN inflight
  /\ inflight[r].pc = "verifyToken"
  /\ now' = t
  /\ UNCHANGED <<usersCollection, ticketsCollection, bookingsCollection,
                 paymentsCollection, nextId>>
  /\ IF ~jwtVerify(inflight[r].authorization, t)
       THEN /\ res' = Response(inflight[r].route, 401, "Unauthorized access")
            /\ inflight' = Answered(r)
       ELSE /\ inflight' = [inflight EXCEPT
                              ![r].decoded = [email |-> inflight[r].authorization.email],
                              ![r].pc = RoleGuard(inflight[r].route)]
            /\ UNCHANGED res

(* verifyAdmin *)
VerifyAdminStep(r) ==
  /\ r \in DOMAIN inflight
  /\ inflight[r].pc = "verifyAdmin"
  /\ UNCHANGED <<usersCollection, ticketsCollection, bookingsCollection,
                 paymentsCollection, nextId, now>>
  /\ IF ~verifyAdmin(inflight[r].decoded.email)
       THEN /\ res' = Forbidden(inflight[r].route)
            /\ inflight' = Answered(r)
       ELSE /\ inflight' = [inflight EXCEPT ![r].pc = "handler"]
            /\ UNCHANGED res

(* verifyVendor *)
VerifyVendorStep(r) ==
  /\ r \in DOMAIN inflight
  /\ inflight[r].pc = "verifyVendor"
  /\ UNCHANGED <<usersCollection, ticketsCollection, bookingsCollection,
                 paymentsCollection, nextId, now>>
  /\ IF ~verifyVendor(inflight[r].decoded.email)
       THEN /\ res' = Forbidden(inflight[r].route)
            /\ inflight' = Answered(r)
       ELSE /\ inflight' = [inflight EXCEPT ![r].pc = "handler"]
            /\ UNCHANGED res

(* The handler of PATCH /users/role/:id *)
PatchUsersRoleHandler(r) ==
  /\ r \in DOMAIN inflight
  /\ inflight[r].pc = "handler"
  /\ inflight[r].route = "PATCH /users/role"
  /\ UNCHANGED <<ticketsCollection, bookingsCollection, paymentsCollection, nextId, now>>
  /\ usersCollection' =
       updateOne(usersCollection, inflight[r].params.id, [role |-> inflight[r].params.role])
  /\ res' = Response("PATCH /users/role", 200, "updated")
  /\ inflight' = Answered(r)

(* The handler of GET /tickets/vendor/:email *)
GetTicketsVendorHandler(r) ==
  /\ r \in DOMAIN inflight
  /\ inflight[r].pc = "handler"
  /\ inflight[r].route = "GET /tickets/vendor"
  /\ UNCHANGED <<usersCollection, ticketsCollection, bookingsCollection,
                 paymentsCollection, nextId, now>>
  /\ res' = Response("GET /tickets/vendor", 200, "found")
  /\ inflight' = Answered(r)

InitAuth ==
  /\ usersCollection = SeedUsers
  /\ ticketsCollection = (1 :> Ticket(Vendor1Email, MaxQty, 0, "approved", FALSE, FALSE))
  /\ bookingsCollection = <<>>
  /\ paymentsCollection = <<>>
  /\ nextId = [tickets |-> 2, bookings |-> 1, payments |-> 1]
  /\ now = 0
  /\ res = Response("none", 0, "")
  /\ inflight = <<>>

(* Authorization headers: none, a header without a token, tokens the      *)
(* server signed (expiring at time 1 or after the last time), a token      *)
(* signed with another secret.                                             *)
Authorizations ==
  {NoAuthorization, [scheme |-> "Basic"]}
    \cup {Bearer(e, ACCESS_TOKEN_SECRET, x) :
            e \in {AdminEmail, Vendor1Email, UserEmail, GhostEmail},
            x \in {1, MaxTime + 1}}
    \cup {Bearer(AdminEmail, "forged", MaxTime + 1)}

(* PATCH /users/role/:id of vendor 1 (user 2), to 'user' or 'vendor'. *)
RoleRequests == {[id |-> 2, role |-> role] : role \in {"user", "vendor"}}

AuthReceiveAdminRoute ==
  \E authorization \in Authorizations, params \in RoleRequests :
    ReceiveRequest("PATCH /users/role", authorization, params)

AuthReceiveVendorRoute ==
  \E authorization \in Authorizations :
    ReceiveRequest("GET /tickets/vendor", authorization, [email |-> Vendor1Email])

AuthVerifyToken == \E r \in 1..MaxInflight, t \in now..MaxTime : VerifyTokenStep(r, t)

AuthVerifyAdmin == \E r \in 1..MaxInflight : VerifyAdminStep(r)

AuthVerifyVendor == \E r \in 1..MaxInflight : VerifyVendorStep(r)

AuthPatchUsersRole == \E r \in 1..MaxInflight : PatchUsersRoleHandler(r)

AuthGetTicketsVendor == \E r \in 1..MaxInflight : GetTicketsVendorHandler(r)

NextAuth ==
  \/ AuthReceiveAdminRoute
  \/ AuthReceiveVendorRoute
  \/ AuthVerifyToken
  \/ AuthVerifyAdmin
  \/ AuthVerifyVendor
  \/ AuthPatchUsersRole
  \/ AuthGetTicketsVendor

SpecAuth == InitAuth /\ [][NextAuth]_vars

(* C12: a request to an admin-only or vendor-only route starts at the      *)
(* token check; without a token or with an invalid one it is answered 401  *)
(* and nothing is written; with a valid token it goes on to the role       *)
(* check, where it is answered 403 with nothing written unless a user      *)
(* with the token's email exists and has the required role; its handler    *)
(* starts only from a passed role check.                                   *)
C12_AuthenticateThenAuthorize ==
  [][/\ \A r \in DOMAIN inflight' \ DOMAIN inflight : inflight'[r].pc = "verifyToken"
     /\ \A r \in DOMAIN inflight :
          LET req == inflight[r]
              left == r \notin DOMAIN inflight'
              required == IF req.route = "PATCH /users/role" THEN "admin" ELSE "vendor"
              validToken == /\ req.authorization.scheme = "Bearer"
                            /\ req.authorization.secret = ACCESS_TOKEN_SECRET
                            /\ req.authorization.exp > now'
              hasRole == \E u \in DOMAIN usersCollection :
                           /\ usersCollection[u].email = req.decoded.email
                           /\ usersCollection[u].role = required
              stores == <<usersCollection, ticketsCollection,
                          bookingsCollection, paymentsCollection>>
          IN (left \/ inflight'[r] # req) =>
               CASE req.pc = "verifyToken" ->
                      IF validToken
                        THEN /\ ~left
                             /\ inflight'[r].pc = "verify" \o
                                  (IF required = "admin" THEN "Admin" ELSE "Vendor")
                             /\ inflight'[r].decoded.email = req.authorization.email
                             /\ UNCHANGED <<stores, res>>
                        ELSE /\ left
                             /\ res'.op = req.route
                             /\ res'.code = 401
                             /\ UNCHANGED stores
                 [] req.pc \in {"verifyAdmin", "verifyVendor"} ->
                      IF hasRole
                        THEN /\ ~left
                             /\ inflight'[r].pc = "handler"
                             /\ UNCHANGED <<stores, res>>
                        ELSE /\ left
                             /\ res'.op = req.route
                             /\ res'.code = 403
                             /\ UNCHANGED stores
                 [] OTHER -> req.pc = "handler" /\ left /\ res'.code = 200]_vars

(* C12 witness: a request reached its handler after another request was   *)
(* answered 403 at the role check.                                         *)
C12_Witness ==
  /\ res.code = 403
  /\ \E r \in DOMAIN inflight : inflight[r].pc = "handler"

----------------------------------------------------------------------------
(* The routes a user calls for their own email: role, details, profile     *)
(* updates, bookings, payments and stats.  caller is req.decoded.email,    *)
(* email is req.params.email.                                              *)

(* A response that carries documents. *)
Reply(op, code, message, data) ==
  [op |-> op, code |-> code, message |-> message, data |-> data]

(* Mutation: the comparison of the path email with the token's is dropped. *)
NotSelf_Never(email, caller) == FALSE

(* email !== req.decoded.email *)
NotSelf(email, caller) == email # caller

(* usersCollection.updateOne({email}, {$set: body}): the first such user. *)
updateOneByEmail(email, body) ==
  updateOne(usersCollection, findOneUserByEmail(email), body)

(* The truthy ones of the fields name, phone, photo and address. *)
ProfileFields(body) ==
  LET set == {f \in {"name", "phone", "photo", "address"} : body[f] # ""}
  IN [f \in set |-> body[f]]

RECURSIVE reduce(_, _)
(* payments.reduce((sum, payment) => sum + payment.amount, 0) *)
reduce(coll, ids) ==
  IF ids = {} THEN 0
  ELSE LET p == Min(ids) IN coll[p].amount + reduce(coll, ids \ {p})

(* collection.find({userEmail: email}): the matching documents with _id. *)
findByUserEmail(coll, email) ==
  {coll[d] @@ [_id |-> d] : d \in {x \in DOMAIN coll : coll[x].userEmail = email}}

(* GET /users/role/:email *)
GetUsersRole(caller, email) ==
  /\ UNCHANGED <<usersCollection, ticketsCollection, bookingsCollection,
                 paymentsCollection, nextId, now, inflight>>
  /\ IF NotSelf(email, caller)
       THEN res' = Reply("GET /users/role", 403, "Forbidden access", {})
       ELSE LET u == findOneUserByEmail(email)
                role == IF u # 0 /\ usersCollection[u].role # ""
                          THEN usersCollection[u].role ELSE "user"
            IN res' = Reply("GET /users/role", 200, "", {[role |-> role]})

(* GET /users/details/:email *)
GetUsersDetails(caller, email) ==
  /\ UNCHANGED <<usersCollection, ticketsCollection, bookingsCollection,
                 paymentsCollection, nextId, now, inflight>>
  /\ IF NotSelf(email, caller)
       THEN res' = Reply("GET /users/details", 403, "Forbidden access", {})
       ELSE LET u == findOneUserByEmail(email)
            IN res' = Reply("GET /users/details", 200, "",
                            IF u = 0 THEN {} ELSE {usersCollection[u]})

(* PATCH /users/update/:email *)
PatchUsersUpdate(caller, email, body) ==
  /\ UNCHANGED <<ticketsCollection, bookingsCollection, paymentsCollection,
                 nextId, now, inflight>>
  /\ IF NotSelf(email, caller)
       THEN /\ res' = Reply("PATCH /users/update", 403, "Forbidden access", {})
            /\ UNCHANGED usersCollection
       ELSE /\ usersCollection' =
                 updateOneByEmail(email, ProfileFields(body) @@ [updatedAt |-> now])
            /\ res' = Reply("PATCH /users/update", 200, "updated", {})

(* GET /users/:email: the path email is not compared with the token's. *)
GetUsersEmail(caller, email) ==
  /\ UNCHANGED <<usersCollection, ticketsCollection, bookingsCollection,
                 paymentsCollection, nextId, now, inflight>>
  /\ LET u == findOneUserByEmail(email)
     IN res' = Reply("GET /users", 200, "", IF u = 0 THEN {} ELSE {usersCollection[u]})

(* PATCH /users/:email *)
PatchUsersEmail(caller, email, body) ==
  /\ UNCHANGED <<ticketsCollection, bookingsCollection, paymentsCollection,
                 nextId, now, inflight>>
  /\ IF NotSelf(email, caller)
       THEN /\ res' = Reply("PATCH /users", 403, "Forbidden access", {})
            /\ UNCHANGED usersCollection
       ELSE /\ usersCollection' =
                 updateOneByEmail(email, [photo |-> body.photo, photoUpdatedAt |-> now])
            /\ res' = Reply("PATCH /users", 200, "updated", {})

(* PUT /users/:email *)
PutUsersEmail(caller, email, updateData) ==
  /\ UNCHANGED <<ticketsCollection, bookingsCollection, paymentsCollection,
                 nextId, now, inflight>>
  /\ IF NotSelf(email, caller)
       THEN /\ res' = Reply("PUT /users", 403, "Forbidden access", {})
            /\ UNCHANGED usersCollection
       ELSE /\ usersCollection' =
                 updateOneByEmail(email, [updatedAt |-> now] @@ updateData)
            /\ res' = Reply("PUT /users", 200, "updated", {})

(* GET /bookings/user/:email *)
GetBookingsUser(caller, email) ==
  /\ UNCHANGED <<usersCollection, ticketsCollection, bookingsCollection,
                 paymentsCollection, nextId, now, inflight>>
  /\ IF NotSelf(email, caller)
       THEN res' = Reply("GET /bookings/user", 403, "Forbidden access", {})
       ELSE res' = Reply("GET /bookings/user", 200, "",
                         findByUserEmail(bookingsCollection, email))

(* GET /payments/:email *)
GetPayments(caller, email) ==
  /\ UNCHANGED <<usersCollection, ticketsCollection, bookingsCollection,
                 paymentsCollection, nextId, now, inflight>>
  /\ IF NotSelf(email, caller)
       THEN res' = Reply("GET /payments", 403, "Forbidden access", {})
       ELSE res' = Reply("GET /payments", 200, "",
                         findByUserEmail(paymentsCollection, email))

(* GET /user/stats/:email *)
GetUserStats(caller, email) ==
  /\ UNCHANGED <<usersCollection, ticketsCollection, bookingsCollection,
                 paymentsCollection, nextId, now, inflight>>
  /\ IF NotSelf(email, caller)
       THEN res' = Reply("GET /user/stats", 403, "Forbidden access", {})
       ELSE LET mine == {b \in DOMAIN bookingsCollection :
                           bookingsCollection[b].userEmail = email}
                countDocuments(status) ==
                  Cardinality({b \in mine : bookingsCollection[b].status = status})
                payments == {p \in DOMAIN paymentsCollection :
                               paymentsCollection[p].userEmail = email}
            IN res' = Reply("GET /user/stats", 200, "",
                            {[totalBookings |-> Cardinality(mine),
                              paidBookings |-> countDocuments("paid"),
                              pendingBookings |-> countDocuments("pending"),
                              totalSpent |-> reduce(paymentsCollection, payments)]})

(* The store holds bookings and payments of the user and of vendor 1. *)
InitSelf ==
  /\ usersCollection = SeedUsers
  /\ ticketsCollection = (1 :> Ticket(Vendor1Email, MaxQty, 0, "approved", FALSE, FALSE))
  /\ bookingsCollection =
       (1 :> [userEmail |-> UserEmail, ticketId |-> 1, bookingQuantity |-> 1,
              status |-> "paid"]) @@
       (2 :> [userEmail |-> UserEmail, ticketId |-> 1, bookingQuantity |-> 1,
              status |-> "pending"]) @@
       (3 :> [userEmail |-> Vendor1Email, ticketId |-> 1, bookingQuantity |-> 1,
              status |-> "paid"])
  /\ paymentsCollection =
       (1 :> [userEmail |-> UserEmail, bookingId |-> 1, ticketId |-> 1, amount |-> 5]) @@
       (2 :> [userEmail |-> Vendor1Email, bookingId |-> 3, ticketId |-> 1, amount |-> 7])
  /\ nextId = [tickets |-> 2, bookings |-> 4, payments |-> 3]
  /\ now = 0
  /\ res = Response("none", 0, "")
  /\ inflight = <<>>

(* The emails of the tokens and of the paths. *)
SelfCallers == {UserEmail, Vendor1Email}

SelfEmails == {UserEmail, Vendor1Email, AdminEmail}

ProfileBodies ==
  {[name |-> "Ann", phone |-> "", photo |-> "", address |-> ""],
   [name |-> "", phone |-> "", photo |-> "", address |-> "Dhaka"]}

PhotoBodies == {[photo |-> "photo.png"]}

PutBodies == {[name |-> "Bob"], [email |-> Vendor1Email]}

SelfGetUsersRole ==
  \E caller \in SelfCallers, email \in SelfEmails : GetUsersRole(caller, email)

SelfGetUsersDetails ==
  \E caller \in SelfCallers, email \in SelfEmails : GetUsersDetails(caller, email)

SelfPatchUsersUpdate ==
  \E caller \in SelfCallers, email \in SelfEmails, body \in ProfileBodies :
    PatchUsersUpdate(caller, email, body)

SelfGetUsersEmail ==
  \E caller \in SelfCallers, email \in SelfEmails : GetUsersEmail(caller, email)

SelfPatchUsersEmail ==
  \E caller \in SelfCallers, email \in SelfEmails, body \in PhotoBodies :
    PatchUsersEmail(caller, email, body)

SelfPutUsersEmail ==
  \E caller \in SelfCallers, email \in SelfEmails, updateData \in PutBodies :
    PutUsersEmail(caller, email, updateData)

SelfGetBookingsUser ==
  \E caller \in SelfCallers, email \in SelfEmails : GetBookingsUser(caller, email)

SelfGetPayments ==
  \E caller \in SelfCallers, email \in SelfEmails : GetPayments(caller, email)

SelfGetUserStats ==
  \E caller \in SelfCallers, email \in SelfEmails : GetUserStats(caller, email)

NextSelf ==
  \/ SelfGetUsersRole
  \/ SelfGetUsersDetails
  \/ SelfPatchUsersUpdate
  \/ SelfGetUsersEmail
  \/ SelfPatchUsersEmail
  \/ SelfPutUsersEmail
  \/ SelfGetBookingsUser
  \/ SelfGetPayments
  \/ SelfGetUserStats

SpecSelf == InitSelf /\ [][NextSelf]_vars

(* What a route scoped to the caller's own email must have done for the   *)
(* path email: refused it if it is not the token's, else read and written  *)
(* documents of the caller's email only.                                   *)
SelfScoped(caller, email) ==
  IF email # caller
    THEN /\ res'.code = 403
         /\ res'.data = {}
         /\ UNCHANGED <<usersCollection, ticketsCollection,
                        bookingsCollection, paymentsCollection>>
    ELSE /\ res'.code = 200
         /\ UNCHANGED <<ticketsCollection, bookingsCollection, paymentsCollection>>
         /\ DOMAIN usersCollection' = DOMAIN usersCollection
         /\ \A u \in DOMAIN usersCollection :
              usersCollection'[u] # usersCollection[u] =>
                usersCollection[u].email = caller

(* C13: GET /users/role/:email for an email other than the token's is      *)
(* answered 403 and returns no data; so are the user details, user         *)
(* bookings, user payments, user stats and profile update routes, which    *)
(* write nothing then; for the token's own email they return only          *)
(* documents of that email and write only the user document of that email. *)
C13_SelfScopedRoutes ==
  [][\A caller \in SelfCallers, email \in SelfEmails :
       /\ (res'.op = "GET /users/role" /\ GetUsersRole(caller, email)) =>
            /\ SelfScoped(caller, email)
            /\ \A d \in res'.data :
                 \/ d.role = "user"
                 \/ \E u \in DOMAIN usersCollection :
                      /\ usersCollection[u].email = caller
                      /\ usersCollection[u].role = d.role
       /\ (res'.op = "GET /users/details" /\ GetUsersDetails(caller, email)) =>
            /\ SelfScoped(caller, email)
            /\ \A d \in res'.data : d.email = caller
       /\ (res'.op = "GET /bookings/user" /\ GetBookingsUser(caller, email)) =>
            /\ SelfScoped(caller, email)
            /\ \A d \in res'.data : d.userEmail = caller
       /\ (res'.op = "GET /payments" /\ GetPayments(caller, email)) =>
            /\ SelfScoped(caller, email)
            /\ \A d \in res'.data : d.userEmail = caller
       /\ (res'.op = "GET /user/stats" /\ GetUserStats(caller, email)) =>
            /\ SelfScoped(caller, email)
            /\ \A d \in res'.data :
                 d.totalBookings =
                   Cardinality({b \in DOMAIN bookingsCollection :
                                  bookingsCollection[b].userEmail = caller})
       /\ (/\ res'.op = "PATCH /users/update"
           /\ \E body \in ProfileBodies : PatchUsersUpdate(caller, email, body)) =>
            SelfScoped(caller, email)
       /\ (/\ res'.op = "PATCH /users"
           /\ \E body \in PhotoBodies : PatchUsersEmail(caller, email, body)) =>
            SelfScoped(caller, email)
       /\ (/\ res'.op = "PUT /users"
           /\ \E updateData \in PutBodies : PutUsersEmail(caller, email, updateData)) =>
            SelfScoped(caller, email)]_vars

(* C13 witness: a request for the role of another email was refused. *)
C13_Witness ==
  /\ res.op = "GET /users/role"
  /\ res.code = 403
  /\ res.data = {}

----------------------------------------------------------------------------
(* Further properties of the booking workflow and of fraud marking *)

(* C14: POST /tickets by a vendor whose own user document has isFraud set  *)
(* is answered 403 and inserts no ticket, whatever vendorEmail the body    *)
(* carries.                                                                *)
C14_FraudVendorCannotCreate ==
  [][res'.op = "POST /tickets" =>
     \A caller \in {Vendor1Email, Vendor2Email}, ticket \in FraudTicketBodies :
       (/\ PostTickets(caller, ticket)
        /\ \E u \in DOMAIN usersCollection :
             /\ usersCollection[u].email = caller
             /\ usersCollection[u].role = "vendor"
             /\ usersCollection[u].isFraud)
       => /\ res'.code = 403
          /\ UNCHANGED ticketsCollection]_vars

(* C20: PATCH /bookings/accept/:id and PATCH /bookings/reject/:id leave    *)
(* the status of every booking that is not 'pending' as it is.             *)
C20_AcceptRejectOnlyPending ==
  [][res'.op \in {"PATCH /bookings/accept", "PATCH /bookings/reject"} =>
     \A b \in DOMAIN bookingsCollection :
       bookingsCollection[b].status # "pending" =>
         /\ b \in DOMAIN bookingsCollection'
         /\ bookingsCollection'[b].status = bookingsCollection[b].status]_vars

----------------------------------------------------------------------------
(* The ticket catalog: vendors create, update and delete tickets, the      *)
(* admin moderates and deletes them; bookings of the tickets exist.        *)

MaxCatalogTickets == 3

(* collection.deleteOne({_id: id}) *)
deleteOne(coll, id) == [x \in DOMAIN coll \ {id} |-> coll[x]]

(* Mutation: the deleteMany filter is dropped, every booking is deleted. *)
deleteMany_All(coll, ticketId) == [x \in {} |-> coll[x]]

(* bookingsCollection.deleteMany({ticketId: id}) *)
deleteMany(coll, ticketId) ==
  [x \in {b \in DOMAIN coll : coll[b].ticketId # ticketId} |-> coll[x]]

(* DELETE /tickets/:id *)
DeleteTicketsId(caller, id) ==
  /\ UNCHANGED <<usersCollection, bookingsCollection, paymentsCollection, nextId, now>>
  /\ IF ~verifyVendor(caller)
       THEN /\ res' = Forbidden("DELETE /tickets")
            /\ UNCHANGED ticketsCollection
     ELSE IF IsRejected(ticketsCollection, id)
       THEN /\ res' = Response("DELETE /tickets", 403, "Cannot delete rejected tickets")
            /\ UNCHANGED ticketsCollection
     ELSE /\ ticketsCollection' = deleteOne(ticketsCollection, id)
          /\ res' = Response("DELETE /tickets", 200, "deleted")

(* DELETE /admin/tickets/:id *)
DeleteAdminTicketsId(caller, id) ==
  /\ UNCHANGED <<usersCollection, paymentsCollection, nextId, now>>
  /\ IF ~verifyAdmin(caller)
       THEN /\ res' = Forbidden("DELETE /admin/tickets")
            /\ UNCHANGED <<ticketsCollection, bookingsCollection>>
       ELSE /\ bookingsCollection' = deleteMany(bookingsCollection, id)
            /\ ticketsCollection' = deleteOne(ticketsCollection, id)
            /\ res' = Response("DELETE /admin/tickets", 200, "deleted")

(* A booking of a ticket, as POST /bookings stores it. *)
Booking(ticketId, status) ==
  [ticketId |-> ticketId, bookingQuantity |-> 1, status |-> status]

(* One ticket of each vendor, two bookings of the first and one of the     *)
(* second.                                                                 *)
InitCatalog ==
  /\ usersCollection = SeedUsers
  /\ ticketsCollection =
       (1 :> Ticket(Vendor1Email, MaxQty, 0, "approved", FALSE, FALSE)) @@
       (2 :> Ticket(Vendor2Email, MaxQty, 0, "pending", FALSE, FALSE))
  /\ bookingsCollection =
       (1 :> Booking(1, "pending")) @@ (2 :> Booking(1, "paid")) @@
       (3 :> Booking(2, "pending"))
  /\ paymentsCollection = <<>>
  /\ nextId = [tickets |-> 3, bookings |-> 4, payments |-> 1]
  /\ now = 0
  /\ res = Response("none", 0, "")
  /\ inflight = <<>>

CatalogVendors == {Vendor1Email, Vendor2Email, UserEmail}

CatalogAdmins == {AdminEmail, Vendor1Email}

CatalogTicketBodies == {Ticket(Vendor1Email, MaxQty, 0, "approved", TRUE, TRUE)}

(* Bodies of PATCH /tickets/:id: a new quantity, a verificationStatus. *)
CatalogUpdateBodies == {[ticketQuantity |-> 1], [verificationStatus |-> "approved"]}

CatalogCreateTicket ==
  /\ nextId.tickets <= MaxCatalogTickets
  /\ UNCHANGED inflight
  /\ \E caller \in CatalogVendors, ticket \in CatalogTicketBodies :
       PostTickets(caller, ticket)

CatalogVendorUpdate ==
  /\ UNCHANGED inflight
  /\ \E caller \in CatalogVendors, id \in 1..MaxCatalogTickets,
        updatedTicket \in CatalogUpdateBodies :
          PatchTicketsId(caller, id, updatedTicket)

CatalogVendorDelete ==
  /\ UNCHANGED inflight
  /\ \E caller \in CatalogVendors, id \in 1..MaxCatalogTickets :
       DeleteTicketsId(caller, id)

CatalogModerate ==
  /\ UNCHANGED inflight
  /\ \E caller \in CatalogAdmins, id \in 1..MaxCatalogTickets,
        verificationStatus \in {"approved", "rejected"} :
          PatchAdminTicketsId(caller, id, verificationStatus)

CatalogAdminDelete ==
  /\ UNCHANGED inflight
  /\ \E caller \in CatalogAdmins, id \in 1..MaxCatalogTickets :
       DeleteAdminTicketsId(caller, id)

NextCatalog ==
  \/ CatalogCreateTicket
  \/ CatalogVendorUpdate
  \/ CatalogVendorDelete
  \/ CatalogModerate
  \/ CatalogAdminDelete

SpecCatalog == InitCatalog /\ [][NextCatalog]_vars

(* C15: a ticket enters the store with verificationStatus 'pending'        *)
(* whatever the body carried, and the verificationStatus of a stored       *)
(* ticket changes only in a successful PATCH /admin/tickets/:id, never in  *)
(* a vendor operation.                                                     *)
C15_StatusOnlyByModeration ==
  [][/\ \A t \in DOMAIN ticketsCollection' \ DOMAIN ticketsCollection :
          ticketsCollection'[t].verificationStatus = "pending"
     /\ \A t \in DOMAIN ticketsCollection \cap DOMAIN ticketsCollection' :
          ticketsCollection'[t].verificationStatus
              # ticketsCollection[t].verificationStatus
            => res'.op = "PATCH /admin/tickets" /\ res'.code = 200]_vars

(* C16: PATCH /tickets/:id and DELETE /tickets/:id of a ticket whose       *)
(* verificationStatus is 'rejected' are answered with an error, and every  *)
(* vendor operation leaves every rejected ticket in the store, unchanged.  *)
C16_RejectedTicketImmutable ==
  [][res'.op \in {"PATCH /tickets", "DELETE /tickets", "POST /tickets"} =>
     /\ \A t \in DOMAIN ticketsCollection :
          ticketsCollection[t].verificationStatus = "rejected" =>
            /\ t \in DOMAIN ticketsCollection'
            /\ ticketsCollection'[t] = ticketsCollection[t]
     /\ \A caller \in CatalogVendors, id \in 1..MaxCatalogTickets :
          (/\ id \in DOMAIN ticketsCollection
           /\ ticketsCollection[id].verificationStatus = "rejected"
           /\ \/ DeleteTicketsId(caller, id)
              \/ \E updatedTicket \in CatalogUpdateBodies :
                   PatchTicketsId(caller, id, updatedTicket))
          => /\ res'.code = 403
             /\ UNCHANGED ticketsCollection]_vars

(* C16 witness: a vendor's delete of a rejected ticket was refused and the *)
(* ticket is still stored.                                                 *)
C16_Witness ==
  /\ res.op = "DELETE /tickets"
  /\ res.code = 403
  /\ res.message = "Cannot delete rejected tickets"
  /\ \E t \in DOMAIN ticketsCollection :
       ticketsCollection[t].verificationStatus = "rejected"

(* C17: PATCH /tickets/:id and DELETE /tickets/:id by a vendor whose email *)
(* is not the ticket's vendorEmail are refused and leave the ticket        *)
(* unchanged.                                                              *)
C17_OnlyOwnerChangesTicket ==
  [][res'.op \in {"PATCH /tickets", "DELETE /tickets"} =>
     \A caller \in CatalogVendors, id \in 1..MaxCatalogTickets :
       (/\ id \in DOMAIN ticketsCollection
        /\ ticketsCollection[id].vendorEmail # caller
        /\ \/ DeleteTicketsId(caller, id)
           \/ \E updatedTicket \in CatalogUpdateBodies :
                PatchTicketsId(caller, id, updatedTicket))
       => /\ res'.code \in {401, 403}
          /\ UNCHANGED ticketsCollection]_vars

(* C18: after DELETE /admin/tickets/:id of ticket T by an admin, T is not  *)
(* in the store, no booking with ticketId T is, and every other ticket and *)
(* every booking of another ticket is as before.                           *)
C18_AdminDeleteCascades ==
  [][res'.op = "DELETE /admin/tickets" =>
     \A caller \in CatalogAdmins, T \in 1..MaxCatalogTickets :
       (DeleteAdminTicketsId(caller, T) /\ verifyAdmin(caller)) =>
         /\ res'.code = 200
         /\ T \notin DOMAIN ticketsCollection'
         /\ \A t \in DOMAIN ticketsCollection \ {T} :
              t \in DOMAIN ticketsCollection' /\ ticketsCollection'[t] = ticketsCollection[t]
         /\ \A b \in DOMAIN bookingsCollection' : bookingsCollection'[b].ticketId # T
         /\ \A b \in DOMAIN bookingsCollection :
              bookingsCollection[b].ticketId # T =>
                /\ b \in DOMAIN bookingsCollection'
                /\ bookingsCollection'[b] = bookingsCollection[b]]_vars

(* C18 witness: the admin deleted ticket 1; its two bookings are gone and  *)
(* the booking of ticket 2 is still stored.                                *)
C18_Witness ==
  /\ res.op = "DELETE /admin/tickets"
  /\ res.code = 200
  /\ 1 \notin DOMAIN ticketsCollection
  /\ DOMAIN bookingsCollection = {3}
  /\ bookingsCollection[3] = Booking(2, "pending")

----------------------------------------------------------------------------
(* POST /users, step by step: findOne({email}), then insertOne(user).      *)

MaxSignups == 2
MaxUsers == 6

NewEmail == "new@tb"

(* A POST /users request arrives. *)
PostUsersReceive(user) ==
  /\ UNCHANGED <<usersCollection, ticketsCollection, bookingsCollection,
                 paymentsCollection, nextId, now, res>>
  /\ \E r \in 1..MaxSignups :
       /\ r \notin DOMAIN inflight
       /\ inflight' = inflight @@
            (r :> [route |-> "POST /users", pc |-> "findOne", user |-> user])

(* existingUser = await usersCollection.findOne({email: user.email}) *)
PostUsersFindOne(r) ==
  /\ r \in DOMAIN inflight
  /\ inflight[r].pc = "findOne"
  /\ UNCHANGED <<usersCollection, ticketsCollection, bookingsCollection,
                 paymentsCollection, nextId, now>>
  /\ IF findOneUserByEmail(inflight[r].user.email) # 0
       THEN /\ res' = Response("POST /users", 200, "User already exists")
            /\ inflight' = Answered(r)
       ELSE /\ inflight' = [inflight EXCEPT ![r].pc = "insertOne"]
            /\ UNCHANGED res

(* result = await usersCollection.insertOne(user) *)
PostUsersInsertOne(r) ==
  /\ r \in DOMAIN inflight
  /\ inflight[r].pc = "insertOne"
  /\ UNCHANGED <<ticketsCollection, bookingsCollection, paymentsCollection, now>>
  /\ usersCollection' = insertOne(usersCollection, nextId.users, inflight[r].user)
  /\ nextId' = [nextId EXCEPT !.users = @ + 1]
  /\ res' = Response("POST /users", 200, "inserted")
  /\ inflight' = Answered(r)

InitUsers ==
  /\ usersCollection = SeedUsers
  /\ ticketsCollection = <<>>
  /\ bookingsCollection = <<>>
  /\ paymentsCollection = <<>>
  /\ nextId = [tickets |-> 1, bookings |-> 1, payments |-> 1, users |-> 5]
  /\ now = 0
  /\ res = Response("none", 0, "")
  /\ inflight = <<>>

(* Bodies of POST /users: an email that has a document, two that have not. *)
UserBodies ==
  {[email |-> e, role |-> role, isFraud |-> FALSE] :
     e \in {UserEmail, NewEmail, GhostEmail}, role \in {"user", "admin"}}

UsersReceive ==
  /\ nextId.users + Cardinality(DOMAIN inflight) <= MaxUsers
  /\ \E user \in UserBodies : PostUsersReceive(user)

UsersFindOne == \E r \in 1..MaxSignups : PostUsersFindOne(r)

UsersInsertOne == \E r \in 1..MaxSignups : PostUsersInsertOne(r)

NextUsers ==
  \/ UsersReceive
  \/ UsersFindOne
  \/ UsersInsertOne

SpecUsers == InitUsers /\ [][NextUsers]_vars

(* C19: POST /users for an email that has a user document inserts nothing, *)
(* so that whatever the interleaving of POST /users requests, the store    *)
(* holds at most one user document per email.                              *)
C19_OneUserPerEmail ==
  \A u1, u2 \in DOMAIN usersCollection :
    usersCollection[u1].email = usersCollection[u2].email => u1 = u2

----------------------------------------------------------------------------
(* The ledger: payments, accepts and rejects against one booking of        *)
(* vendor 1's ticket, found in any of its five statuses.                   *)

MaxLedgerPayments == 2

(* A booking as the client of POST /bookings sends it and the status       *)
(* routes leave it; the cancel route adds cancelledAt.                     *)
LedgerBooking(status) ==
  [ticketId |-> 1, bookingQuantity |-> 1, status |-> status,
   vendorEmail |-> Vendor1Email, userEmail |-> UserEmail]
    @@ (IF status = "cancelled" THEN [cancelledAt |-> 0] ELSE <<>>)

InitLedger ==
  /\ usersCollection = SeedUsers
  /\ ticketsCollection = (1 :> Ticket(Vendor1Email, MaxQty, 0, "approved", FALSE, FALSE))
  /\ \E status \in BookingStatus :
       /\ bookingsCollection = (1 :> LedgerBooking(status))
       /\ paymentsCollection =
            IF status = "paid"
              THEN (1 :> [bookingId |-> 1, ticketId |-> 1, bookingQuantity |-> 1])
              ELSE <<>>
       /\ nextId = [tickets |-> 2, bookings |-> 2,
                    payments |-> IF status = "paid" THEN 2 ELSE 1]
  /\ now = 0
  /\ res = Response("none", 0, "")
  /\ inflight = <<>>

(* Payments of booking 1 and of a booking that does not exist. *)
LedgerPaymentBodies == [bookingId : 1..2, ticketId : {1}, bookingQuantity : {1}]

LedgerVendors == {Vendor1Email, Vendor2Email}

LedgerPay ==
  /\ Cardinality(DOMAIN paymentsCollection) < MaxLedgerPayments
  /\ UNCHANGED inflight
  /\ \E payment \in LedgerPaymentBodies : PostPayments(payment)

LedgerAccept ==
  /\ UNCHANGED inflight
  /\ \E caller \in LedgerVendors, id \in 1..2 : PatchBookingsAccept(caller, id)

LedgerReject ==
  /\ UNCHANGED inflight
  /\ \E caller \in LedgerVendors, id \in 1..2 : PatchBookingsReject(caller, id)

NextLedger ==
  \/ LedgerPay
  \/ LedgerAccept
  \/ LedgerReject

SpecLedger == InitLedger /\ [][NextLedger]_vars

(* C21: POST /payments sets the status of the booking it names to 'paid'   *)
(* whatever the status was: 'pending', 'accepted', 'rejected', 'cancelled' *)
(* or 'paid'.                                                              *)
C21_PaymentMarksPaidFromAnyStatus ==
  [][res'.op = "POST /payments" =>
     \A payment \in LedgerPaymentBodies :
       (/\ PostPayments(payment)
        /\ payment.bookingId \in DOMAIN bookingsCollection
        /\ bookingsCollection[payment.bookingId].status \in BookingStatus)
       => /\ res'.code = 200
          /\ bookingsCollection' =
               [bookingsCollection EXCEPT ![payment.bookingId].status = "paid"]]_vars

(* C21 witness: a booking that had been cancelled is 'paid' after a        *)
(* payment.                                                                *)
C21_Witness ==
  /\ res.op = "POST /payments"
  /\ res.code = 200
  /\ bookingsCollection[1].status = "paid"
  /\ "cancelledAt" \in DOMAIN bookingsCollection[1]

----------------------------------------------------------------------------
(* Concurrent booking creations: POST /bookings one awaited call at a      *)
(* time, several requests in flight.                                       *)

MaxConcurrent == 2

(* app.post('/bookings', verifyToken, ...): the request is taken up. *)
PostBookingsReceive(booking) ==
  /\ UNCHANGED <<usersCollection, ticketsCollection, bookingsCollection,
                 paymentsCollection, nextId, now, res>>
  /\ \E r \in 1..MaxConcurrent :
       /\ r \notin DOMAIN inflight
       /\ inflight' = inflight @@
            (r :> [route |-> "POST /bookings", pc |-> "findOne", booking |-> booking])

(* ticket = await ticketsCollection.findOne({_id}) and the checks on it. *)
PostBookingsFindOne(r) ==
  /\ r \in DOMAIN inflight
  /\ inflight[r].route = "POST /bookings"
  /\ inflight[r].pc = "findOne"
  /\ UNCHANGED <<usersCollection, ticketsCollection, bookingsCollection,
                 paymentsCollection, nextId, now>>
  /\ LET booking == inflight[r].booking
         id == booking.ticketId
     IN IF id \notin DOMAIN ticketsCollection
          THEN /\ res' = Response("POST /bookings", 404, "Ticket not found")
               /\ inflight' = Answered(r)
        ELSE IF NotEnoughTickets(ticketsCollection[id], booking)
          THEN /\ res' = Response("POST /bookings", 400, "Not enough tickets available")
               /\ inflight' = Answered(r)
        ELSE IF DepartureHasPassed(ticketsCollection[id], now)
          THEN /\ res' = Response("POST /bookings", 400,
                                  "Cannot book - departure time has passed")
               /\ inflight' = Answered(r)
        ELSE /\ inflight' = [inflight EXCEPT ![r].pc = "insertOne"]
             /\ UNCHANGED res

(* Mutation: the insert is refused when the ticket's bookings would exceed *)
(* its quantity.                                                           *)
PostBookingsInsertOne_Isolated(r) ==
  /\ r \in DOMAIN inflight
  /\ inflight[r].route = "POST /bookings"
  /\ inflight[r].pc = "insertOne"
  /\ UNCHANGED <<usersCollection, ticketsCollection, paymentsCollection, now>>
  /\ LET booking == inflight[r].booking
         RECURSIVE total(_)
         total(S) == IF S = {} THEN 0
                     ELSE LET b == Min(S)
                          IN bookingsCollection[b].bookingQuantity + total(S \ {b})
         Held(id) == total({b \in DOMAIN bookingsCollection :
                              /\ bookingsCollection[b].ticketId = id
                              /\ bookingsCollection[b].status = "pending"})
     IN IF Held(booking.ticketId) + booking.bookingQuantity >
             ticketsCollection[booking.ticketId].ticketQuantity
          THEN /\ res' = Response("POST /bookings", 400, "Not enough tickets available")
               /\ UNCHANGED <<bookingsCollection, nextId>>
          ELSE /\ bookingsCollection' =
                    insertOne(bookingsCollection, nextId.bookings, bookingData(booking))
               /\ nextId' = [nextId EXCEPT !.bookings = @ + 1]
               /\ res' = Response("POST /bookings", 200, "inserted")
  /\ inflight' = Answered(r)

(* result = await bookingsCollection.insertOne(bookingData); res.send(result) *)
PostBookingsInsertOne(r) ==
  /\ r \in DOMAIN inflight
  /\ inflight[r].route = "POST /bookings"
  /\ inflight[r].pc = "insertOne"
  /\ UNCHANGED <<usersCollection, ticketsCollection, paymentsCollection, now>>
  /\ bookingsCollection' =
       insertOne(bookingsCollection, nextId.bookings, bookingData(inflight[r].booking))
  /\ nextId' = [nextId EXCEPT !.bookings = @ + 1]
  /\ res' = Response("POST /bookings", 200, "inserted")
  /\ inflight' = Answered(r)

InitOversell ==
  /\ usersCollection = SeedUsers
  /\ ticketsCollection = (1 :> Ticket(Vendor1Email, MaxQty, 1, "approved", FALSE, FALSE))
  /\ bookingsCollection = <<>>
  /\ paymentsCollection = <<>>
  /\ nextId = [tickets |-> 2, bookings |-> 1, payments |-> 1]
  /\ now = 0
  /\ res = Response("none", 0, "")
  /\ inflight = <<>>

(* Bodies of POST /bookings: one seat, every seat, one seat too many, and  *)
(* a ticket that does not exist.                                           *)
OversellBodies ==
  [ticketId : 1..2, bookingQuantity : {1, MaxQty, MaxQty + 1}, status : {"pending"}]

OversellReceive ==
  /\ nextId.bookings + Cardinality(DOMAIN inflight) <= MaxInserts
  /\ \E booking \in OversellBodies : PostBookingsReceive(booking)

OversellFindOne == \E r \in 1..MaxConcurrent : PostBookingsFindOne(r)

OversellInsertOne == \E r \in 1..MaxConcurrent : PostBookingsInsertOne(r)

NextOversell ==
  \/ OversellReceive
  \/ OversellFindOne
  \/ OversellInsertOne

SpecOversell == InitOversell /\ [][NextOversell]_vars

(* C22: the availability check of POST /bookings and its insert are two    *)
(* steps with nothing holding the ticket between them: a request whose     *)
(* quantity is within the ticket's quantity passes the check whatever else *)
(* is in flight, and a request past the check inserts its booking whatever *)
(* has been inserted meanwhile, so two concurrent requests that together   *)
(* ask for more than remains both insert.                                  *)
C22_CheckAndInsertNotIsolated ==
  [][\A r \in 1..MaxConcurrent :
       /\ (/\ PostBookingsFindOne(r)
           /\ inflight[r].booking.ticketId \in DOMAIN ticketsCollection
           /\ inflight[r].booking.bookingQuantity <=
                ticketsCollection[inflight[r].booking.ticketId].ticketQuantity
           /\ ~DepartureHasPassed(ticketsCollection[inflight[r].booking.ticketId], now))
          => /\ r \in DOMAIN inflight'
             /\ inflight'[r].pc = "insertOne"
       /\ (/\ r \in DOMAIN inflight
           /\ inflight[r].route = "POST /bookings"
           /\ inflight[r].pc = "insertOne"
           /\ r \notin DOMAIN inflight')
          => /\ res'.code = 200
             /\ bookingsCollection' =
                  insertOne(bookingsCollection, nextId.bookings,
                            bookingData(inflight[r].booking))
             /\ UNCHANGED ticketsCollection]_vars

(* C22 witness: two requests for the same ticket are both past the check,  *)
(* each within the ticket's quantity, together beyond it.                  *)
C22_Witness ==
  /\ DOMAIN inflight = {1, 2}
  /\ inflight[1].pc = "insertOne"
  /\ inflight[2].pc = "insertOne"
  /\ inflight[1].booking.ticketId = inflight[2].booking.ticketId
  /\ LET t == ticketsCollection[inflight[1].booking.ticketId]
     IN /\ inflight[1].booking.bookingQuantity <= t.ticketQuantity
        /\ inflight[2].booking.bookingQuantity <= t.ticketQuantity
        /\ inflight[1].booking.bookingQuantity + inflight[2].booking.bookingQuantity
             > t.ticketQuantity

----------------------------------------------------------------------------
(* Concurrent advertise requests of an admin: the count and the write of   *)
(* PATCH /admin/tickets/advertise/:id are two awaited calls.               *)

(* The request is taken up after verifyToken and verifyAdmin let it pass;  *)
(* with isAdvertised false the count is skipped.                           *)
AdvertiseReceive(id, isAdvertised) ==
  /\ UNCHANGED <<usersCollection, ticketsCollection, bookingsCollection,
                 paymentsCollection, nextId, now, res>>
  /\ verifyAdmin(AdminEmail)
  /\ \E r \in 1..MaxConcurrent :
       /\ r \notin DOMAIN inflight
       /\ inflight' = inflight @@
            (r :> [route |-> "PATCH /admin/tickets/advertise",
                   pc |-> IF isAdvertised THEN "countDocuments" ELSE "updateOne",
                   id |-> id, isAdvertised |-> isAdvertised])

(* advertisedCount = await ticketsCollection.countDocuments({isAdvertised: true}) *)
AdvertiseCountDocuments(r) ==
  /\ r \in DOMAIN inflight
  /\ inflight[r].route = "PATCH /admin/tickets/advertise"
  /\ inflight[r].pc = "countDocuments"
  /\ UNCHANGED <<usersCollection, ticketsCollection, bookingsCollection,
                 paymentsCollection, nextId, now>>
  /\ IF CapReached(advertisedCount(ticketsCollection))
       THEN /\ res' = Response("PATCH /admin/tickets/advertise", 400,
                               "Cannot advertise more than 6 tickets")
            /\ inflight' = Answered(r)
       ELSE /\ inflight' = [inflight EXCEPT ![r].pc = "updateOne"]
            /\ UNCHANGED res

(* Mutation: the write is refused when the cap is reached by then. *)
AdvertiseUpdateOne_Recounted(r) ==
  /\ r \in DOMAIN inflight
  /\ inflight[r].route = "PATCH /admin/tickets/advertise"
  /\ inflight[r].pc = "updateOne"
  /\ UNCHANGED <<usersCollection, bookingsCollection, paymentsCollection, nextId, now>>
  /\ IF inflight[r].isAdvertised /\ CapReached(advertisedCount(ticketsCollection))
       THEN /\ res' = Response("PATCH /admin/tickets/advertise", 400,
                               "Cannot advertise more than 6 tickets")
            /\ UNCHANGED ticketsCollection
       ELSE /\ ticketsCollection' =
                 updateOne(ticketsCollection, inflight[r].id,
                           [isAdvertised |-> inflight[r].isAdvertised])
            /\ res' = Response("PATCH /admin/tickets/advertise", 200, "updated")
  /\ inflight' = Answered(r)

(* result = await ticketsCollection.updateOne(filter, updateDoc); res.send(result) *)
AdvertiseUpdateOne(r) ==
  /\ r \in DOMAIN inflight
  /\ inflight[r].route = "PATCH /admin/tickets/advertise"
  /\ inflight[r].pc = "updateOne"
  /\ UNCHANGED <<usersCollection, bookingsCollection, paymentsCollection, nextId, now>>
  /\ ticketsCollection' =
       updateOne(ticketsCollection, inflight[r].id,
                 [isAdvertised |-> inflight[r].isAdvertised])
  /\ res' = Response("PATCH /admin/tickets/advertise", 200, "updated")
  /\ inflight' = Answered(r)

(* One ticket more than the cap, all but two of them advertised. *)
InitCapRace ==
  /\ usersCollection = SeedUsers
  /\ ticketsCollection =
       [t \in 1..(AdvertiseCap + 1) |->
          Ticket(Vendor1Email, 1, 1, "approved", t < AdvertiseCap, FALSE)]
  /\ bookingsCollection = <<>>
  /\ paymentsCollection = <<>>
  /\ nextId = [tickets |-> AdvertiseCap + 2, bookings |-> 1, payments |-> 1]
  /\ now = 0
  /\ res = Response("none", 0, "")
  /\ inflight = <<>>

(* An advertised ticket and the two that are not. *)
CapRaceIds == {1, AdvertiseCap, AdvertiseCap + 1}

CapRaceReceive ==
  \E id \in CapRaceIds, isAdvertised \in BOOLEAN : AdvertiseReceive(id, isAdvertised)

CapRaceCountDocuments == \E r \in 1..MaxConcurrent : AdvertiseCountDocuments(r)

CapRaceUpdateOne == \E r \in 1..MaxConcurrent : AdvertiseUpdateOne(r)

NextCapRace ==
  \/ CapRaceReceive
  \/ CapRaceCountDocuments
  \/ CapRaceUpdateOne

SpecCapRace == InitCapRace /\ [][NextCapRace]_vars

(* C23: the count check of the advertise handler and its write are two     *)
(* steps: a request that finds fewer than 6 advertised tickets goes on to  *)
(* the write whatever else is in flight, and the write sets the flag       *)
(* whatever the count has become, so with 5 advertised two concurrent      *)
(* requests for two other tickets both write and 7 are advertised.         *)
C23_CountAndWriteNotIsolated ==
  [][\A r \in 1..MaxConcurrent :
       /\ (/\ AdvertiseCountDocuments(r)
           /\ advertisedCount(ticketsCollection) < AdvertiseCap)
          => /\ r \in DOMAIN inflight'
             /\ inflight'[r].pc = "updateOne"
       /\ (/\ r \in DOMAIN inflight
           /\ inflight[r].route = "PATCH /admin/tickets/advertise"
           /\ inflight[r].pc = "updateOne"
           /\ r \notin DOMAIN inflight')
          => /\ res'.code = 200
             /\ ticketsCollection' =
                  [ticketsCollection EXCEPT
                     ![inflight[r].id].isAdvertised = inflight[r].isAdvertised]]_vars

(* C23 witness: 7 tickets are advertised after an advertise request. *)
C23_Witness ==
  /\ res.op = "PATCH /admin/tickets/advertise"
  /\ res.code = 200
  /\ advertisedCount(ticketsCollection) = AdvertiseCap + 1

----------------------------------------------------------------------------
(* POST /payments one awaited call at a time, each of which the data store *)
(* may fail.                                                               *)

(* app.post('/payments', verifyToken, ...): the request is taken up. *)
PostPaymentsReceive(payment) ==
  /\ UNCHANGED <<usersCollection, ticketsCollection, bookingsCollection,
                 paymentsCollection, nextId, now, res>>
  /\ \E r \in 1..MaxInflight :
       /\ r \notin DOMAIN inflight
       /\ inflight' = inflight @@
            (r :> [route |-> "POST /payments", pc |-> "insertOne",
                   payment |-> payment, paymentResult |-> 0])

(* paymentResult = await paymentsCollection.insertOne(paymentData) *)
PostPaymentsInsertOne(r) ==
  /\ r \in DOMAIN inflight
  /\ inflight[r].route = "POST /payments"
  /\ inflight[r].pc = "insertOne"
  /\ UNCHANGED <<usersCollection, ticketsCollection, bookingsCollection, now, res>>
  /\ paymentsCollection' =
       insertOne(paymentsCollection, nextId.payments, inflight[r].payment)
  /\ nextId' = [nextId EXCEPT !.payments = @ + 1]
  /\ inflight' = [inflight EXCEPT ![r].pc = "updateBooking",
                                  ![r].paymentResult = nextId.payments]

(* await bookingsCollection.updateOne(bookingFilter, bookingUpdate) *)
PostPaymentsUpdateBooking(r) ==
  /\ r \in DOMAIN inflight
  /\ inflight[r].route = "POST /payments"
  /\ inflight[r].pc = "updateBooking"
  /\ UNCHANGED <<usersCollection, ticketsCollection, paymentsCollection, nextId,
                 now, res>>
  /\ bookingsCollection' =
       updateOne(bookingsCollection, inflight[r].payment.bookingId, bookingUpdate)
  /\ inflight' = [inflight EXCEPT ![r].pc = "updateTicket"]

(* await ticketsCollection.updateOne(ticketFilter, ticketUpdate);          *)
(* res.send(paymentResult)                                                 *)
PostPaymentsUpdateTicket(r) ==
  /\ r \in DOMAIN inflight
  /\ inflight[r].route = "POST /payments"
  /\ inflight[r].pc = "updateTicket"
  /\ UNCHANGED <<usersCollection, bookingsCollection, paymentsCollection, nextId, now>>
  /\ ticketsCollection' =
       IF inflight[r].payment.ticketId \in DOMAIN ticketsCollection
         THEN [ticketsCollection EXCEPT
                 ![inflight[r].payment.ticketId] = ticketUpdate(@, inflight[r].payment)]
         ELSE ticketsCollection
  /\ res' = Response("POST /payments", 200, "inserted")
  /\ inflight' = Answered(r)

(* Mutation: the catch block takes the inserted payment back. *)
PostPaymentsCatch_Compensated(r) ==
  /\ r \in DOMAIN inflight
  /\ inflight[r].route = "POST /payments"
  /\ UNCHANGED <<usersCollection, ticketsCollection, bookingsCollection, nextId, now>>
  /\ paymentsCollection' = deleteOne(paymentsCollection, inflight[r].paymentResult)
  /\ res' = Response("POST /payments", 500, "error.message")
  /\ inflight' = Answered(r)

(* The awaited call rejects without effect:                                *)
(* catch (error) { res.status(500).send({error: error.message}) }          *)
PostPaymentsCatch(r) ==
  /\ r \in DOMAIN inflight
  /\ inflight[r].route = "POST /payments"
  /\ UNCHANGED <<usersCollection, ticketsCollection, bookingsCollection,
                 paymentsCollection, nextId, now>>
  /\ res' = Response("POST /payments", 500, "error.message")
  /\ inflight' = Answered(r)

InitPayFail ==
  /\ usersCollection = SeedUsers
  /\ ticketsCollection = (1 :> Ticket(Vendor1Email, MaxQty, 1, "approved", FALSE, FALSE))
  /\ bookingsCollection = (1 :> LedgerBooking("pending"))
  /\ paymentsCollection = <<>>
  /\ nextId = [tickets |-> 2, bookings |-> 2, payments |-> 1]
  /\ now = 0
  /\ res = Response("none", 0, "")
  /\ inflight = <<>>

(* Payments of booking 1 and of a booking that does not exist, for one    *)
(* seat and for every seat of the ticket.                                  *)
PayFailBodies == [bookingId : 1..2, ticketId : {1}, bookingQuantity : {1, MaxQty}]

PayFailReceive ==
  /\ nextId.payments + Cardinality(DOMAIN inflight) <= MaxLedgerPayments
  /\ \E payment \in PayFailBodies : PostPaymentsReceive(payment)

PayFailInsertOne == \E r \in 1..MaxInflight : PostPaymentsInsertOne(r)

PayFailUpdateBooking == \E r \in 1..MaxInflight : PostPaymentsUpdateBooking(r)

PayFailUpdateTicket == \E r \in 1..MaxInflight : PostPaymentsUpdateTicket(r)

PayFailCatch == \E r \in 1..MaxInflight : PostPaymentsCatch(r)

NextPayFail ==
  \/ PayFailReceive
  \/ PayFailInsertOne
  \/ PayFailUpdateBooking
  \/ PayFailUpdateTicket
  \/ PayFailCatch

SpecPayFail == InitPayFail /\ [][NextPayFail]_vars

(* C24: when POST /payments fails after its payment insert (the booking    *)
(* update or the ticket decrement rejects), the answer is HTTP 500, the    *)
(* inserted payment record is still stored, and bookings and tickets are   *)
(* as the steps performed so far left them: nothing is undone, nothing     *)
(* further is done.                                                        *)
C24_FailureAfterInsertKeepsPayment ==
  [][\A r \in 1..MaxInflight :
       (/\ r \in DOMAIN inflight
        /\ inflight[r].route = "POST /payments"
        /\ inflight[r].pc \in {"updateBooking", "updateTicket"}
        /\ r \notin DOMAIN inflight'
        /\ res'.code # 200)
       => /\ res'.code = 500
          /\ inflight[r].paymentResult \in DOMAIN paymentsCollection'
          /\ paymentsCollection'[inflight[r].paymentResult] = inflight[r].payment
          /\ paymentsCollection' = paymentsCollection
          /\ UNCHANGED <<bookingsCollection, ticketsCollection>>]_vars

(* C24 witness: the ticket decrement failed: the payment is stored, the    *)
(* booking is 'paid', the ticket quantity is what it was, the answer 500.  *)
C24_Witness ==
  /\ res.op = "POST /payments"
  /\ res.code = 500
  /\ inflight = <<>>
  /\ DOMAIN paymentsCollection = {1}
  /\ paymentsCollection[1].bookingId = 1
  /\ bookingsCollection[1].status = "paid"
  /\ ticketsCollection[1].ticketQuantity = MaxQty

----------------------------------------------------------------------------
(* Failing data-store calls in the role guards and the handlers of the     *)
(* guarded routes, for the guards of index.js and those of part_000.       *)

(* index.js verifyAdmin / verifyVendor: usersCollection.findOne rejects,   *)
(* catch (error) { res.status(500).send({error: error.message}) }          *)
GuardCatch(r) ==
  /\ r \in DOMAIN inflight
  /\ inflight[r].pc \in {"verifyAdmin", "verifyVendor"}
  /\ UNCHANGED <<usersCollection, ticketsCollection, bookingsCollection,
                 paymentsCollection, nextId, now>>
  /\ res' = Response(inflight[r].route, 500, "findOne: error.message")
  /\ inflight' = Answered(r)

(* part_000 verifyAdmin / verifyVendor: usersCollection.findOne rejects    *)
(* outside any try: the promise of the async middleware rejects.  A router *)
(* that ignores the returned promise sends nothing and never calls next(); *)
(* a router that forwards the rejection has its default error handler      *)
(* answer 500.                                                             *)
GuardRejectsPart000(r) ==
  /\ r \in DOMAIN inflight
  /\ inflight[r].pc \in {"verifyAdmin", "verifyVendor"}
  /\ UNCHANGED <<usersCollection, ticketsCollection, bookingsCollection,
                 paymentsCollection, nextId, now>>
  /\ \/ /\ inflight' = [inflight EXCEPT ![r].pc = "unhandledRejection"]
        /\ UNCHANGED res
     \/ /\ res' = Response(inflight[r].route, 500, "findOne: error.message")
        /\ inflight' = Answered(r)

(* A data-store call of the handler rejects:                               *)
(* catch (error) { res.status(500).send({error: error.message}) }          *)
HandlerCatch(r) ==
  /\ r \in DOMAIN inflight
  /\ inflight[r].pc = "handler"
  /\ UNCHANGED <<usersCollection, ticketsCollection, bookingsCollection,
                 paymentsCollection, nextId, now>>
  /\ res' = Response(inflight[r].route, 500, "handler: error.message")
  /\ inflight' = Answered(r)

(* No header, and tokens of an admin, a vendor and a user that the server  *)
(* signed and that expire after the last time.                             *)
AnswerAuthorizations ==
  {NoAuthorization}
    \cup {Bearer(e, ACCESS_TOKEN_SECRET, MaxTime + 1) :
            e \in {AdminEmail, Vendor1Email, UserEmail}}

AnswerReceiveAdminRoute ==
  \E authorization \in AnswerAuthorizations, params \in RoleRequests :
    ReceiveRequest("PATCH /users/role", authorization, params)

AnswerReceiveVendorRoute ==
  \E authorization \in AnswerAuthorizations :
    ReceiveRequest("GET /tickets/vendor", authorization, [email |-> Vendor1Email])

AnswerVerifyToken(r) == \E t \in now..MaxTime : VerifyTokenStep(r, t)

AnswerGuardCatch == \E r \in 1..MaxInflight : GuardCatch(r)

AnswerGuardRejectsPart000 == \E r \in 1..MaxInflight : GuardRejectsPart000(r)

AnswerHandlerCatch == \E r \in 1..MaxInflight : HandlerCatch(r)

NextAnswer ==
  \/ AnswerReceiveAdminRoute
  \/ AnswerReceiveVendorRoute
  \/ \E r \in 1..MaxInflight : AnswerVerifyToken(r)
  \/ \E r \in 1..MaxInflight : VerifyAdminStep(r)
  \/ \E r \in 1..MaxInflight : VerifyVendorStep(r)
  \/ \E r \in 1..MaxInflight : PatchUsersRoleHandler(r)
  \/ \E r \in 1..MaxInflight : GetTicketsVendorHandler(r)
  \/ AnswerGuardCatch
  \/ AnswerGuardRejectsPart000
  \/ AnswerHandlerCatch

(* The event loop runs every continuation that is ready: each step of each *)
(* request in flight is taken unless a failure takes its place.            *)
SpecAnswer ==
  /\ InitAuth
  /\ [][NextAnswer]_vars
  /\ \A r \in 1..MaxInflight :
       /\ WF_vars(AnswerVerifyToken(r))
       /\ WF_vars(VerifyAdminStep(r))
       /\ WF_vars(VerifyVendorStep(r))
       /\ WF_vars(PatchUsersRoleHandler(r))
       /\ WF_vars(GetTicketsVendorHandler(r))

(* C25: every request is eventually answered, also when a data-store call  *)
(* fails inside a role guard or a handler.                                 *)
C25_EveryRequestAnswered ==
  \A r \in 1..MaxInflight : (r \in DOMAIN inflight) ~> (r \notin DOMAIN inflight)

----------------------------------------------------------------------------
(* Further properties of the ledger *)

(* C26: POST /payments does not look for an earlier payment: posting a     *)
(* payment that is already stored inserts a second record of it and        *)
(* lowers the ticket's ticketQuantity by the posted quantity once more.    *)
C26_PaymentNotIdempotent ==
  [][res'.op = "POST /payments" =>
     \A payment \in LedgerPaymentBodies :
       (/\ PostPayments(payment)
        /\ \E p \in DOMAIN paymentsCollection : paymentsCollection[p] = payment)
       => /\ nextId.payments \notin DOMAIN paymentsCollection
          /\ paymentsCollection' = paymentsCollection @@ (nextId.payments :> payment)
          /\ ticketsCollection'[payment.ticketId].ticketQuantity =
               ticketsCollection[payment.ticketId].ticketQuantity
                 - payment.bookingQuantity]_vars

(* C26 witness: the same payment for booking 1 is stored twice and the     *)
(* ticket has lost the posted quantity twice.                              *)
C26_Witness ==
  /\ res.op = "POST /payments"
  /\ {1, 2} \subseteq DOMAIN paymentsCollection
  /\ paymentsCollection[1] = paymentsCollection[2]
  /\ paymentsCollection[1].bookingId = 1
  /\ ticketsCollection[1].ticketQuantity =
       MaxQty - 2 * paymentsCollection[1].bookingQuantity

----------------------------------------------------------------------------
(* Profile updates whose bodies name role and isFraud. *)

InitProfile ==
  /\ usersCollection = SeedUsers
  /\ ticketsCollection = <<>>
  /\ bookingsCollection = <<>>
  /\ paymentsCollection = <<>>
  /\ nextId = [tickets |-> 1, bookings |-> 1, payments |-> 1]
  /\ now = 0
  /\ res = Reply("none", 0, "", {})
  /\ inflight = <<>>

(* Callers that verifyToken passed: a user and a vendor, no admin. *)
ProfileCallers == {UserEmail, Vendor1Email}

(* Bodies of PATCH /users/update/:email, with and without role and isFraud. *)
ProfileUpdateBodies ==
  {[name |-> "Ann", phone |-> "", photo |-> "", address |-> ""],
   [name |-> "", phone |-> "017", photo |-> "", address |-> "",
    role |-> "admin", isFraud |-> TRUE]}

(* Bodies of PATCH /users/:email. *)
ProfilePhotoBodies ==
  {[photo |-> "photo.png"], [photo |-> "photo.png", role |-> "admin", isFraud |-> TRUE]}

(* Bodies of PUT /users/:email. *)
ProfilePutBodies == {[name |-> "Bob"], [role |-> "admin"], [isFraud |-> TRUE]}

ProfilePatchUsersUpdate ==
  \E caller \in ProfileCallers, email \in ProfileCallers, body \in ProfileUpdateBodies :
    PatchUsersUpdate(caller, email, body)

ProfilePatchUsersEmail ==
  \E caller \in ProfileCallers, email \in ProfileCallers, body \in ProfilePhotoBodies :
    PatchUsersEmail(caller, email, body)

ProfilePutUsersEmail ==
  \E caller \in ProfileCallers, email \in ProfileCallers, updateData \in ProfilePutBodies :
    PutUsersEmail(caller, email, updateData)

NextProfile ==
  \/ ProfilePatchUsersUpdate
  \/ ProfilePatchUsersEmail
  \/ ProfilePutUsersEmail

SpecProfile == InitProfile /\ [][NextProfile]_vars

(* C27: a profile update by a caller who is no admin (PATCH                *)
(* /users/update/:email, PATCH /users/:email, PUT /users/:email) leaves    *)
(* role and isFraud of every user as they were, whatever the body carries. *)
C27_ProfileUpdateKeepsRoleAndFraud ==
  [][\A caller \in ProfileCallers, email \in ProfileCallers :
       (/\ ~verifyAdmin(caller)
        /\ \/ /\ res'.op = "PATCH /users/update"
              /\ \E body \in ProfileUpdateBodies : PatchUsersUpdate(caller, email, body)
           \/ /\ res'.op = "PATCH /users"
              /\ \E body \in ProfilePhotoBodies : PatchUsersEmail(caller, email, body)
           \/ /\ res'.op = "PUT /users"
              /\ \E updateData \in ProfilePutBodies :
                   PutUsersEmail(caller, email, updateData))
       => \A u \in DOMAIN usersCollection :
            /\ usersCollection'[u].role = usersCollection[u].role
            /\ usersCollection'[u].isFraud = usersCollection[u].isFraud]_vars

----------------------------------------------------------------------------
(* Further properties of the booking workflow *)

(* C28: for every ticket, the quantity it was created with (MaxQty for the *)
(* seeded ticket) equals its ticketQuantity plus the bookingQuantity of    *)
(* its 'paid' bookings.                                                    *)
C28_InventoryConserved ==
  LET RECURSIVE total(_)
      total(S) == IF S = {} THEN 0
                  ELSE LET b == Min(S)
                       IN bookingsCollection[b].bookingQuantity + total(S \ {b})
      paid(t) == {b \in DOMAIN bookingsCollection :
                    /\ bookingsCollection[b].ticketId = t
                    /\ bookingsCollection[b].status = "paid"}
  IN \A t \in DOMAIN ticketsCollection :
       MaxQty = ticketsCollection[t].ticketQuantity + total(paid(t))

----------------------------------------------------------------------------
(* A cancel running beside an accept or a payment of the same booking:     *)
(* PATCH /bookings/cancel/:id one awaited call at a time.                  *)

(* app.patch('/bookings/cancel/:id', verifyToken, ...): the request is     *)
(* taken up.                                                               *)
CancelReceive(id) ==
  /\ UNCHANGED <<usersCollection, ticketsCollection, bookingsCollection,
                 paymentsCollection, nextId, now, res>>
  /\ \E r \in 1..MaxConcurrent :
       /\ r \notin DOMAIN inflight
       /\ inflight' = inflight @@
            (r :> [route |-> "PATCH /bookings/cancel", pc |-> "findOne", id |-> id])

(* booking = await bookingsCollection.findOne({_id}) and the status test;  *)
(* booking.status of null throws and the catch answers 500.                *)
CancelFindOne(r) ==
  /\ r \in DOMAIN inflight
  /\ inflight[r].route = "PATCH /bookings/cancel"
  /\ inflight[r].pc = "findOne"
  /\ UNCHANGED <<usersCollection, ticketsCollection, bookingsCollection,
                 paymentsCollection, nextId, now>>
  /\ IF inflight[r].id \notin DOMAIN bookingsCollection
       THEN /\ res' = Response("PATCH /bookings/cancel", 500, "TypeError")
            /\ inflight' = Answered(r)
     ELSE IF ~CanCancel(bookingsCollection[inflight[r].id])
       THEN /\ res' = Response("PATCH /bookings/cancel", 400,
                               "Can only cancel pending bookings")
            /\ inflight' = Answered(r)
     ELSE /\ inflight' = [inflight EXCEPT ![r].pc = "updateOne"]
          /\ UNCHANGED res

(* {$set: {status: 'cancelled', cancelledAt}} *)
cancelUpdate(t) == [status |-> "cancelled", cancelledAt |-> t]

(* result = await bookingsCollection.updateOne({_id}, updateDoc); res.send(result) *)
CancelUpdateOne(r) ==
  /\ r \in DOMAIN inflight
  /\ inflight[r].route = "PATCH /bookings/cancel"
  /\ inflight[r].pc = "updateOne"
  /\ UNCHANGED <<usersCollection, ticketsCollection, paymentsCollection, nextId, now>>
  /\ bookingsCollection' =
       updateOne(bookingsCollection, inflight[r].id, cancelUpdate(now))
  /\ res' = Response("PATCH /bookings/cancel", 200, "updated")
  /\ inflight' = Answered(r)

InitCancelRace ==
  /\ usersCollection = SeedUsers
  /\ ticketsCollection = (1 :> Ticket(Vendor1Email, MaxQty, 1, "approved", FALSE, FALSE))
  /\ bookingsCollection = (1 :> LedgerBooking("pending"))
  /\ paymentsCollection = <<>>
  /\ nextId = [tickets |-> 2, bookings |-> 2, payments |-> 1]
  /\ now = 0
  /\ res = Response("none", 0, "")
  /\ inflight = <<>>

CancelRaceReceive == \E id \in 1..2 : CancelReceive(id)

CancelRaceFindOne == \E r \in 1..MaxConcurrent : CancelFindOne(r)

CancelRaceUpdateOne == \E r \in 1..MaxConcurrent : CancelUpdateOne(r)

CancelRaceAccept ==
  /\ UNCHANGED inflight
  /\ PatchBookingsAccept(Vendor1Email, 1)

CancelRacePay ==
  /\ Cardinality(DOMAIN paymentsCollection) < MaxLedgerPayments
  /\ UNCHANGED inflight
  /\ \E payment \in LedgerPaymentBodies : PostPayments(payment)

NextCancelRace ==
  \/ CancelRaceReceive
  \/ CancelRaceFindOne
  \/ CancelRaceUpdateOne
  \/ CancelRaceAccept
  \/ CancelRacePay

SpecCancelRace == InitCancelRace /\ [][NextCancelRace]_vars

(* C29: the write of a cancel never replaces a status that an accept or a  *)
(* payment has set meanwhile: when the booking is no longer 'pending' at   *)
(* the cancel's write, the cancel is refused and the status stays.         *)
C29_CancelNeverOverwrites ==
  [][\A r \in DOMAIN inflight :
       (/\ inflight[r].route = "PATCH /bookings/cancel"
        /\ inflight[r].pc = "updateOne"
        /\ r \notin DOMAIN inflight'
        /\ bookingsCollection[inflight[r].id].status # "pending")
       => /\ res'.code # 200
          /\ bookingsCollection'[inflight[r].id].status =
               bookingsCollection[inflight[r].id].status]_vars

----------------------------------------------------------------------------
(* Ownership of the bookings a vendor accepts or rejects *)

(* C30: an accept or a reject sent by a vendor whose email is not the      *)
(* booking's vendorEmail leaves the booking unchanged.                     *)
C30_OnlyOwningVendorDecides ==
  [][res'.op \in {"PATCH /bookings/accept", "PATCH /bookings/reject"} =>
     \A caller \in LedgerVendors, id \in DOMAIN bookingsCollection :
       (/\ bookingsCollection[id].vendorEmail # caller
        /\ \/ PatchBookingsAccept(caller, id)
           \/ PatchBookingsReject(caller, id))
       => UNCHANGED bookingsCollection]_vars

====
